---- MODULE Spec2Model ----
(***************************************************************************)
(* A model of the App Service tooling of vscode-azuretools:                *)
(*   - the parent node child cache (AzureParentNode),                      *)
(*   - the zip deployment workflows (SiteWrapper.deployZip and             *)
(*     deployRunFromZip),                                                  *)
(*   - the source-control (SCM) edit workflow.                             *)
(* Each part has its own specification; the variables of the other parts   *)
(* stay at their initial value.                                            *)
(***************************************************************************)
EXTENDS Integers, Sequences, FiniteSets, TLC

(***************************************************************************)
(* Bounds of the model.                                                    *)
(***************************************************************************)
\* labels of tree items are 1..MaxLabel; label order is the order of numbers
MaxLabel == 3
\* the longest page the descriptor delivers in one loadMoreChildren
MaxPage == 2
\* the descriptor stops delivering when the cache holds this many nodes
MaxCache == 3
\* async calls that may be in flight on the parent node at the same time
MaxTasks == 2
\* progress callbacks the descriptor makes during one createChild
MaxProgress == 2
\* the descriptor makes no progress callback while this many placeholders are shown
MaxCreating == 2
\* status lookups that find the deployment incomplete during one deploy
MaxPolls == 2
\* the most members the ScmType enumeration has
MaxScmTypes == 3

\* the largest id, and the largest label, of a tree item that carries an id
MaxId == 2

\* the deepest level of the tree below a root node
MaxDepth == 2

\* the pickChildNode calls of one showNodePicker after which pickChildNode
\* gives the node itself no more
MaxCalls == 3

VARIABLES
    cachedChildren,  \* AzureParentNode._cachedChildren: [defined, nodes]
    creatingNodes,   \* AzureParentNode._creatingNodes
    hasMore,         \* what treeItem.hasMoreChildren() answers
    descriptor,      \* the capabilities of the wrapped treeItem
    limit,           \* how many calls the callers keep in flight
    tasks,           \* the async calls in flight, by slot
    last,            \* history: the call that just ended (NoCall once the next started)
    dep,             \* the deploy call: its locals, the calls it issued, its outcome
    files,           \* the zip files that exist
    siteConfig,      \* the scmType of the site's configuration
    scm,             \* the editScmType call: its locals, the calls it issued, its outcome
    del,             \* the deleteSite call: its locals, the calls it issued, its outcome
    account,         \* the AzureAccount: its status and its filters
    provider,        \* the AzureTreeDataProvider: its fields, and what getChildren() gave last
    picker           \* the showNodePicker call: its locals, and how it ended

treeVars == <<cachedChildren, creatingNodes, hasMore, descriptor, limit, tasks, last>>

deployVars == <<dep, files>>

scmVars == <<siteConfig, scm>>

deleteVars == <<del>>

providerVars == <<account, provider, picker>>

\* the variables of the workflows, which no operation of the tree touches
workflowVars == <<deployVars, scmVars, deleteVars, providerVars>>

vars == <<treeVars, workflowVars>>

(***************************************************************************)
(* Tree items and nodes.                                                   *)
(***************************************************************************)
ContextValues == {"site", "group"}

\* the resources behind the parent node: the one labelled l is a "site" for an
\* odd l and a "group" for an even l
ContextOf(l) == IF l % 2 = 1 THEN "site" ELSE "group"

\* what the resource descriptor delivers: IAzureTreeItem
Items == {[label |-> l, contextValue |-> ContextOf(l)] : l \in 1..MaxLabel}

Range(s) == {s[i] : i \in DOMAIN s}

Min(S) == CHOOSE x \in S : \A y \in S : x <= y

SeqsUpTo(S, n) == UNION {[1..k -> S] : k \in 0..n}

\* An AzureNode made of a tree item.  Two nodes of the cache are two objects
\* even when they carry the same item.  mark = 1 tells the one object that the
\* call that ended last returned (last.ret) from the others.
Node(item) == [label |-> item.label, contextValue |-> item.contextValue, mark |-> 0]

Marked(n) == [n EXCEPT !.mark = 1]

\* the nodes, none of them the object of an earlier result
Forget(nodes) == [i \in DOMAIN nodes |-> [nodes[i] EXCEPT !.mark = 0]]

ItemOf(n) == [label |-> n.label, contextValue |-> n.contextValue]

ItemsOf(s) == [i \in DOMAIN s |-> ItemOf(s[i])]

\* how often x occurs in the sequence s
Count(s, x) == Cardinality({i \in DOMAIN s : s[i] = x})

SameBag(s, t) == \A x \in Range(s) \cup Range(t) : Count(s, x) = Count(t, x)

\* String.prototype.localeCompare on labels
localeCompare(a, b) == IF a < b THEN -1 ELSE IF a = b THEN 0 ELSE 1

\* a descriptor's own compareChildren: here, descending label order
compareChildren(n1, n2) == localeCompare(n2.label, n1.label)

\* lines 682-685: loadMoreChildren's sortCallback
sortCallback(custom, n1, n2) ==
    IF custom THEN compareChildren(n1, n2) ELSE localeCompare(n1.label, n2.label)

\* Array.prototype.sort(cmp), as a stable insertion sort
RECURSIVE InsertInto(_, _, _)
InsertInto(sorted, n, custom) ==
    IF sorted = <<>> THEN <<n>>
    ELSE IF sortCallback(custom, n, sorted[Len(sorted)]) >= 0
         THEN Append(sorted, n)
         ELSE Append(InsertInto(SubSeq(sorted, 1, Len(sorted) - 1), n, custom),
                     sorted[Len(sorted)])

RECURSIVE SortNodes(_, _)
SortNodes(s, custom) ==
    IF s = <<>> THEN <<>>
    ELSE InsertInto(SortNodes(SubSeq(s, 1, Len(s) - 1), custom), s[Len(s)], custom)

\* the nodes are in the order of sortCallback
IsSortedBy(nodes, custom) ==
    \A i, j \in DOMAIN nodes : i < j => sortCallback(custom, nodes[i], nodes[j]) <= 0

NoDuplicates(s) == \A i, j \in DOMAIN s : i # j => s[i] # s[j]

\* lines 778-786 over a page: one new node per delivered item
createNewNodes(page) == [i \in DOMAIN page |-> Node(page[i])]

(***************************************************************************)
(* Calls in flight.  A call is suspended only where the code awaits the    *)
(* descriptor or the user: pc "fetch" (treeItem.loadMoreChildren), pc      *)
(* "create" (treeItem.createChild), pc "pick" (ui.showQuickPick).  The     *)
(* code between two such points runs without interruption; an await of a   *)
(* call that does not suspend itself is not a point of suspension here.    *)
(***************************************************************************)
TaskIds == 1..MaxTasks

\* treeItem.pickTreeItem(val) gives no item
NoItem == [label |-> 0, contextValue |-> "none"]

\* what a descriptor's pickTreeItem may answer, by expected context value
PickTreeItems == [ContextValues -> Items \cup {NoItem}]

\* a pickTreeItem that answers nothing
PickNothing == [c \in ContextValues |-> NoItem]

\* no placeholder: createChild's creatingNode is undefined
NoNode == [owner |-> 0, seq |-> 0]

\* pickChildNode returning `this`
ThisNode == [label |-> 0, contextValue |-> "parent", mark |-> 0]

IdleTask ==
    [op |-> "none", pc |-> "idle", k |-> "none", clear |-> FALSE,
     startUndef |-> FALSE, afterClear |-> FALSE, dropped |-> 0, fetches |-> <<>>,
     fired |-> <<>>, creatingNode |-> NoNode, nprog |-> 0, cleared |-> FALSE,
     expected |-> <<>>, picks |-> <<>>, noMatch |-> FALSE,
     pickTreeItem |-> PickNothing, ancestors |-> {}]

Busy == {t \in TaskIds : tasks[t].pc # "idle"}

\* a caller may start a call: the callers keep at most `limit` in flight
CanStart == Cardinality(Busy) < limit

\* the slot a new call takes
FreeSlot(t) == CanStart /\ t = Min(TaskIds \ Busy)

\* the call that ended last dropped the cache: clearCache(), or a refresh
\* of the node that got as far as its clearCache()
Cleared ==
    \/ last.op = "clearCache"
    \/ last.op = "refresh" /\ last.clear /\ last.outcome = "ok"

NewTask(op, k) ==
    [IdleTask EXCEPT !.op = op, !.k = k,
                     !.startUndef = ~cachedChildren.defined,
                     !.afterClear = Cleared,
                     !.dropped = IF Cleared THEN last.dropped ELSE 0]

NoCall ==
    [op |-> "none", outcome |-> "none", err |-> "", startUndef |-> FALSE,
     afterClear |-> FALSE, dropped |-> 0, fetches |-> <<>>, fired |-> <<>>,
     ret |-> <<>>, nprog |-> 0, leaked |-> 0, expected |-> <<>>, ancestors |-> {},
     noMatch |-> FALSE, choice |-> "none", pickTreeItem |-> PickNothing,
     clear |-> FALSE]

\* the history record of call `task` ending with `outcome`
Ended(task, outcome, err, ret) ==
    [NoCall EXCEPT !.op = task.op, !.outcome = outcome, !.err = err,
                   !.startUndef = task.startUndef, !.afterClear = task.afterClear,
                   !.dropped = task.dropped, !.ancestors = task.ancestors,
                   !.fetches = task.fetches, !.fired = task.fired, !.ret = ret,
                   !.nprog = task.nprog, !.expected = task.expected,
                   !.noMatch = task.noMatch, !.pickTreeItem = task.pickTreeItem]

\* call t returns `ret`
Return(t, task, ret) ==
    /\ tasks' = [tasks EXCEPT ![t] = IdleTask]
    /\ last' = Ended(task, "ok", "", ret)

\* call t throws `err`
Throw(t, task, err) ==
    /\ tasks' = [tasks EXCEPT ![t] = IdleTask]
    /\ last' = Ended(task, "throw", err, <<>>)

Loaded(nodes) == [defined |-> TRUE, nodes |-> nodes]

NotLoaded == [defined |-> FALSE, nodes |-> <<>>]

(***************************************************************************)
(* AzureTreeDataProvider.refresh(node, false): the change notification.    *)
(* `fired` lists, per call, the node each notification was fired for.      *)
(***************************************************************************)
fire(fired, node) == Append(fired, node)

(***************************************************************************)
(* AzureParentNode.loadMoreChildren                                        *)
(***************************************************************************)
\* lines 676-680 and the call of line 687: the part before the await
loadMoreChildrenBegin(t, task, cache) ==
    /\ cachedChildren' = Loaded(cache.nodes)
    /\ tasks' = [tasks EXCEPT ![t] =
                    [task EXCEPT !.pc = "fetch", !.clear = ~cache.defined]]

\* the cache as a new call finds it: no call's result is remembered
Forgotten == [cachedChildren EXCEPT !.nodes = Forget(@)]

\* line 690 without its .sort(sortCallback): the page is only appended
concatOnly(nodes, page, custom) == nodes \o createNewNodes(page)

\* lines 688-690: the cache after the page arrived
concatAndSort(nodes, page, custom) ==
    SortNodes(nodes \o createNewNodes(page), custom)

\* the public loadMoreChildren is called
LoadMoreChildren(t) ==
    /\ FreeSlot(t)
    /\ loadMoreChildrenBegin(t, NewTask("loadMoreChildren", "lmc"), Forgotten)
    /\ last' = NoCall
    /\ UNCHANGED <<creatingNodes, hasMore, descriptor, limit, workflowVars>>

(***************************************************************************)
(* AzureParentNode.getCachedChildren                                       *)
(***************************************************************************)
\* a getCachedChildren that loads whether or not the children are cached
GetCachedChildrenAlwaysLoads(t) ==
    /\ FreeSlot(t)
    /\ loadMoreChildrenBegin(t, NewTask("getCachedChildren", "gcc"), Forgotten)
    /\ last' = NoCall
    /\ UNCHANGED <<creatingNodes, hasMore, descriptor, limit, workflowVars>>

GetCachedChildren(t) ==
    /\ FreeSlot(t)
    /\ IF ~cachedChildren.defined
       THEN /\ loadMoreChildrenBegin(t, NewTask("getCachedChildren", "gcc"), Forgotten)
            /\ last' = NoCall
       ELSE /\ Return(t, NewTask("getCachedChildren", "gcc"), Forgotten.nodes)
            /\ cachedChildren' = Forgotten
    /\ UNCHANGED <<creatingNodes, hasMore, descriptor, limit, workflowVars>>

(***************************************************************************)
(* AzureParentNode.clearCache                                              *)
(***************************************************************************)
\* history: the loads that wait for their page saw the cache cleared
ClearedWhileWaiting ==
    [t \in TaskIds |-> IF tasks[t].pc = "fetch"
                       THEN [tasks[t] EXCEPT !.cleared = TRUE]
                       ELSE tasks[t]]

\* a clearCache that leaves this._cachedChildren as it is
ClearCacheKeepsChildren ==
    /\ CanStart
    /\ last' = [NoCall EXCEPT !.op = "clearCache", !.outcome = "ok",
                              !.startUndef = ~cachedChildren.defined,
                              !.dropped = Len(cachedChildren.nodes)]
    /\ tasks' = ClearedWhileWaiting
    /\ UNCHANGED <<cachedChildren, creatingNodes, hasMore, descriptor, limit, workflowVars>>

ClearCache ==
    /\ CanStart
    /\ cachedChildren' = NotLoaded
    /\ last' = [NoCall EXCEPT !.op = "clearCache", !.outcome = "ok",
                              !.startUndef = ~cachedChildren.defined,
                              !.dropped = Len(cachedChildren.nodes)]
    /\ tasks' = ClearedWhileWaiting
    /\ UNCHANGED <<creatingNodes, hasMore, descriptor, limit, workflowVars>>

(***************************************************************************)
(* AzureTreeDataProvider.refresh(node, clearCache) of the parent node.     *)
(* refreshLabel says what the item's refreshLabel does: "none" when the    *)
(* item has none, "ok" when it resolves, "throw" when it rejects.          *)
(***************************************************************************)
RefreshLabels == {"none", "ok", "throw"}

\* a refresh that clears whatever its clearCache argument says
refreshNodeAlwaysClears(cache, clearCache, refreshLabel) ==
    [cache |-> NotLoaded, fired |-> fire(<<>>, "parent"), outcome |-> "ok"]

\* lines 479-491: the cache, the notifications and the outcome of refresh
refreshNode(cache, clearCache, refreshLabel) ==
    IF clearCache /\ refreshLabel = "throw"
    THEN [cache |-> cache, fired |-> <<>>, outcome |-> "throw"]
    ELSE [cache |-> IF clearCache THEN NotLoaded ELSE cache,
          fired |-> fire(<<>>, "parent"), outcome |-> "ok"]

\* a caller refreshes the parent node
Refresh(clearCache, refreshLabel) ==
    /\ CanStart
    /\ LET r == refreshNode(Forgotten, clearCache, refreshLabel)
       IN  /\ cachedChildren' = r.cache
           /\ last' = [NoCall EXCEPT !.op = "refresh", !.outcome = r.outcome,
                                     !.err = IF r.outcome = "ok" THEN "" ELSE "labelError",
                                     !.clear = clearCache,
                                     !.startUndef = ~cachedChildren.defined,
                                     !.dropped = Len(cachedChildren.nodes),
                                     !.fired = r.fired]
           /\ tasks' = IF clearCache /\ r.outcome = "ok"
                       THEN ClearedWhileWaiting ELSE tasks
    /\ UNCHANGED <<creatingNodes, hasMore, descriptor, limit, workflowVars>>

(***************************************************************************)
(* AzureParentNode.addNodeToCache and removeNodeFromCache                  *)
(***************************************************************************)
\* lines 719-726: the index the node is inserted at (counted from 1)
insertIndex(nodes, node) ==
    LET before == {i \in DOMAIN nodes : localeCompare(node.label, nodes[i].label) < 1}
    IN  IF before = {} THEN Len(nodes) + 1 ELSE Min(before)

\* Array.prototype.splice(index, 0, node), index counted from 1
spliceIn(nodes, index, node) ==
    SubSeq(nodes, 1, index - 1) \o <<node>> \o SubSeq(nodes, index, Len(nodes))

\* Array.prototype.indexOf: counted from 0, -1 when the object is not there
indexOf(nodes, node) ==
    LET at == {i \in DOMAIN nodes : nodes[i] = node}
    IN  IF at = {} THEN -1 ELSE Min(at) - 1

\* Array.prototype.splice(start, 1): a negative start counts from the end
spliceOut(nodes, start) ==
    LET from == IF start < 0
                THEN (IF Len(nodes) + start < 0 THEN 0 ELSE Len(nodes) + start)
                ELSE start
    IN  SubSeq(nodes, 1, from) \o SubSeq(nodes, from + 2, Len(nodes))

\* an addNodeToCache that only notifies: lines 727-728 without the splice
addNodeNowhere(cache, fired, node) ==
    IF cache.defined
    THEN [cache |-> cache, fired |-> fire(fired, "parent")]
    ELSE [cache |-> cache, fired |-> fired]

\* lines 717-729: the cache and the notifications after addNodeToCache(node)
addNodeToCache(cache, fired, node) ==
    IF cache.defined
    THEN [cache |-> Loaded(spliceIn(cache.nodes, insertIndex(cache.nodes, node), node)),
          fired |-> fire(fired, "parent")]
    ELSE [cache |-> cache, fired |-> fired]

\* lines 733-739: the cache and the notifications after removeNodeFromCache(node),
\* where index is what this._cachedChildren.indexOf(node) gives
removeNodeFromCache(cache, fired, index) ==
    IF cache.defined /\ index # -1
    THEN [cache |-> Loaded(spliceOut(cache.nodes, index)),
          fired |-> fire(fired, "parent")]
    ELSE [cache |-> cache, fired |-> fired]

\* a caller adds a node it made of `item`
AddNodeToCache(item) ==
    /\ CanStart
    /\ Len(cachedChildren.nodes) < MaxCache
    /\ LET node == Marked(Node(item))
           r == addNodeToCache([cachedChildren EXCEPT !.nodes = Forget(@)], <<>>, node)
       IN  /\ cachedChildren' = r.cache
           /\ last' = [NoCall EXCEPT !.op = "addNodeToCache", !.outcome = "ok",
                                     !.startUndef = ~cachedChildren.defined,
                                     !.fired = r.fired, !.ret = <<node>>]
    /\ UNCHANGED <<creatingNodes, hasMore, descriptor, limit, tasks, workflowVars>>

\* a caller removes a node: the cached object at `index` (counted from 0), or
\* with index -1 a node that is not in the cache
RemoveNodeFromCache(index) ==
    /\ CanStart
    /\ LET r == removeNodeFromCache(cachedChildren, <<>>, index)
       IN  /\ cachedChildren' = [r.cache EXCEPT !.nodes = Forget(@)]
           /\ last' = [NoCall EXCEPT !.op = "removeNodeFromCache", !.outcome = "ok",
                                     !.startUndef = ~cachedChildren.defined,
                                     !.fired = r.fired]
    /\ UNCHANGED <<creatingNodes, hasMore, descriptor, limit, tasks, workflowVars>>

(***************************************************************************)
(* AzureParentNode.createChild                                             *)
(***************************************************************************)
\* line 648: without the capability the call throws NotImplementedError
createChildBegin(t, task, cache, history) ==
    IF descriptor.canCreate
    THEN /\ tasks' = [tasks EXCEPT ![t] = [task EXCEPT !.pc = "create"]]
         /\ last' = history
         /\ cachedChildren' = cache
    ELSE /\ Throw(t, task, "NotImplementedError")
         /\ cachedChildren' = Forgotten

CreateChild(t) ==
    /\ FreeSlot(t)
    /\ createChildBegin(t, NewTask("createChild", "create"), Forgotten, NoCall)
    /\ UNCHANGED <<creatingNodes, hasMore, descriptor, limit, workflowVars>>

\* lines 653-658: the descriptor calls back with the label of the new child.
\* The placeholder is the seq-th one that call t installed.
showCreatingNode(t) ==
    /\ tasks[t].pc = "create"
    /\ tasks[t].nprog < MaxProgress
    /\ Len(creatingNodes) < MaxCreating
    /\ LET node == [owner |-> t, seq |-> tasks[t].nprog + 1]
       IN  /\ creatingNodes' = Append(creatingNodes, node)
           /\ tasks' = [tasks EXCEPT ![t] =
                          [@ EXCEPT !.creatingNode = node,
                                    !.nprog = @ + 1,
                                    !.fired = fire(@, "parent")]]
    /\ UNCHANGED <<cachedChildren, hasMore, descriptor, limit, last, workflowVars>>

\* lines 664-669: the finally block
createChildFinally(creating, task) ==
    IF task.creatingNode # NoNode
    THEN [creating |-> spliceOut(creating, indexOf(creating, task.creatingNode)),
          fired |-> fire(task.fired, "parent")]
    ELSE [creating |-> creating, fired |-> task.fired]

\* the placeholders of call t in the list
PlaceholdersOf(creating, t) == {i \in DOMAIN creating : creating[i].owner = t}

\* the list once call t has ended: nothing refers to its placeholders any more
Orphaned(creating, t) ==
    [i \in DOMAIN creating |-> IF creating[i].owner = t THEN NoNode ELSE creating[i]]

\* the end of createChild for the caller awaiting it
AfterCreate(t, task, outcome, err, ret, creating) ==
    /\ tasks' = [tasks EXCEPT ![t] = IdleTask]
    /\ last' = [Ended(task, outcome, err, ret) EXCEPT
                   !.leaked = Cardinality(PlaceholdersOf(creating, t)),
                   !.choice = IF task.k = "pickCreate" THEN "create" ELSE "none"]
    /\ creatingNodes' = Orphaned(creating, t)

\* lines 661-663, then the finally block: the descriptor delivers the new item
CreateChildReturns(t, item) ==
    /\ tasks[t].pc = "create"
    /\ Len(cachedChildren.nodes) < MaxCache
    /\ LET newNode == Marked(Node(item))
           added == addNodeToCache([cachedChildren EXCEPT !.nodes = Forget(@)],
                                   tasks[t].fired, newNode)
           fin == createChildFinally(creatingNodes, [tasks[t] EXCEPT !.fired = added.fired])
       IN  /\ cachedChildren' = added.cache
           /\ AfterCreate(t, [tasks[t] EXCEPT !.fired = fin.fired], "ok", "",
                          <<newNode>>, fin.creating)
    /\ UNCHANGED <<hasMore, descriptor, limit, workflowVars>>

\* the descriptor's createChild fails: the finally block, then the error
CreateChildThrows(t) ==
    /\ tasks[t].pc = "create"
    /\ LET fin == createChildFinally(creatingNodes, tasks[t])
       IN  AfterCreate(t, [tasks[t] EXCEPT !.fired = fin.fired], "throw",
                       "createError", <<>>, fin.creating)
    /\ cachedChildren' = [cachedChildren EXCEPT !.nodes = Forget(@)]
    /\ UNCHANGED <<hasMore, descriptor, limit, workflowVars>>

(***************************************************************************)
(* AzureParentNode.pickChildNode and getQuickPicks                         *)
(***************************************************************************)
\* the orders in which context values are expected
ExpectedContextValues ==
    {e \in SeqsUpTo(ContextValues, Cardinality(ContextValues)) :
        e # <<>> /\ \A i, j \in DOMAIN e : i # j => e[i] # e[j]}

\* treeItem.id: an item may carry an id; 0 stands for an id that is undefined,
\* as does a record without the field
idOf(item) == IF "id" \in DOMAIN item THEN item.id ELSE 0

\* a find of line 699 that looks at the label only
matchesLabel(n, pickedItem) == n.label = pickedItem.label

\* line 700: the child has the id of the picked item, or its label
matches(n, pickedItem) ==
    \/ idOf(pickedItem) # 0 /\ idOf(n) = idOf(pickedItem)
    \/ n.label = pickedItem.label

\* lines 696-706: the index of the child the pickTreeItem loop finds, or 0
RECURSIVE pickFromTree(_, _, _)
pickFromTree(children, expected, pickTreeItem) ==
    IF expected = <<>> THEN 0
    ELSE LET pickedItem == pickTreeItem[Head(expected)]
             found == {i \in DOMAIN children : matches(children[i], pickedItem)}
         IN  IF pickedItem # NoItem /\ found # {}
             THEN Min(found)
             ELSE pickFromTree(children, Tail(expected), pickTreeItem)

\* AzureNode.includeInNodePicker: a child is eligible when its context value is
\* expected, or when its tree item says it is an ancestor of an expected one
\* (ancestors: the context values whose items say so)
includeInNodePicker(node, expected, ancestors) ==
    node.contextValue \in Range(expected) \/ node.contextValue \in ancestors

\* lines 743-775 without the filter of line 744: every child is an entry
getQuickPicksOfAll(nodes, expected, ancestors, d, more) ==
    LET picks == [i \in DOMAIN nodes |-> [kind |-> "node", node |-> nodes[i]]]
        withCreate == IF d.canCreate /\ d.childTypeLabel
                      THEN <<[kind |-> "create", node |-> ThisNode]>> \o picks
                      ELSE picks
    IN  IF more THEN Append(withCreate, [kind |-> "more", node |-> ThisNode])
        ELSE withCreate

\* lines 743-775 with a push in place of the unshift of line 756: the
\* "create new" entry follows the children
getQuickPicksCreateLast(nodes, expected, ancestors, d, more) ==
    LET Eligible(n) == includeInNodePicker(n, expected, ancestors)
        shown == SelectSeq(nodes, Eligible)
        picks == [i \in DOMAIN shown |-> [kind |-> "node", node |-> shown[i]]]
        withCreate == IF d.canCreate /\ d.childTypeLabel
                      THEN Append(picks, [kind |-> "create", node |-> ThisNode])
                      ELSE picks
    IN  IF more THEN Append(withCreate, [kind |-> "more", node |-> ThisNode])
        ELSE withCreate

\* lines 743-775: the entries of the picker
getQuickPicks(nodes, expected, ancestors, d, more) ==
    LET Eligible(n) == includeInNodePicker(n, expected, ancestors)
        shown == SelectSeq(nodes, Eligible)
        picks == [i \in DOMAIN shown |-> [kind |-> "node", node |-> shown[i]]]
        withCreate == IF d.canCreate /\ d.childTypeLabel
                      THEN <<[kind |-> "create", node |-> ThisNode]>> \o picks
                      ELSE picks
    IN  IF more THEN Append(withCreate, [kind |-> "more", node |-> ThisNode])
        ELSE withCreate

\* lines 709-712: the picker is shown
showQuickPick(t, task, cache, more, history) ==
    /\ tasks' = [tasks EXCEPT ![t] =
                    [task EXCEPT !.pc = "pick",
                                 !.picks = getQuickPicks(cache.nodes, task.expected,
                                                         task.ancestors, descriptor, more),
                                 !.pickTreeItem = PickNothing,
                                 !.noMatch = \A i \in DOMAIN cache.nodes :
                                     cache.nodes[i].contextValue \notin Range(task.expected)]]
    /\ cachedChildren' = cache
    /\ last' = history

\* lines 694-713 once the children are there
pickFromChildren(t, task, cache, more, history) ==
    LET i == IF descriptor.canPick
             THEN pickFromTree(cache.nodes, task.expected, task.pickTreeItem) ELSE 0
    IN  IF i # 0
        THEN /\ tasks' = [tasks EXCEPT ![t] = IdleTask]
             /\ last' = [Ended(task, "ok", "", <<Forget(cache.nodes)[i]>>) EXCEPT
                            !.choice = "tree"]
             /\ cachedChildren' = [cache EXCEPT !.nodes = Forget(@)]
        ELSE showQuickPick(t, task, cache, more, history)

\* pickChildNode(expected) is called on a parent whose descriptor answers
\* pickTreeItem, and whose children answer includeInNodePicker by ancestors
PickChildNode(t, expected, pickTreeItem, ancestors) ==
    /\ FreeSlot(t)
    \* inputs the call never reads are fixed: pickTreeItem without the
    \* capability or for a tag not asked, ancestry of a tag that is expected
    /\ descriptor.canPick \/ pickTreeItem = PickNothing
    /\ \A c \in ContextValues \ Range(expected) : pickTreeItem[c] = NoItem
    /\ ancestors \cap Range(expected) = {}
    /\ LET task == [NewTask("pickChildNode", "pick") EXCEPT
                       !.expected = expected, !.pickTreeItem = pickTreeItem,
                       !.ancestors = ancestors]
       IN  IF cachedChildren.defined
           THEN pickFromChildren(t, task, Forgotten, hasMore,
                                 [NoCall EXCEPT !.pickTreeItem = pickTreeItem])
           ELSE /\ loadMoreChildrenBegin(t, task, Forgotten)
                /\ last' = NoCall
    /\ UNCHANGED <<creatingNodes, hasMore, descriptor, limit, workflowVars>>

\* the user selects entry i of the picker: line 713 runs its getNode
UserPicks(t, i) ==
    /\ tasks[t].pc = "pick"
    /\ i \in DOMAIN tasks[t].picks
    /\ LET pick == tasks[t].picks[i]
       IN  CASE pick.kind = "node" ->
                  /\ tasks' = [tasks EXCEPT ![t] = IdleTask]
                  /\ last' = [Ended(tasks[t], "ok", "", <<[pick.node EXCEPT !.mark = 0]>>)
                                 EXCEPT !.choice = "node"]
                  /\ cachedChildren' = [cachedChildren EXCEPT !.nodes = Forget(@)]
             [] pick.kind = "create" ->
                  createChildBegin(t, [tasks[t] EXCEPT !.k = "pickCreate"],
                                   cachedChildren, last)
             [] pick.kind = "more" ->
                  /\ loadMoreChildrenBegin(t, [tasks[t] EXCEPT !.k = "pickMore"],
                                           cachedChildren)
                  /\ UNCHANGED last
    /\ UNCHANGED <<creatingNodes, hasMore, descriptor, limit, workflowVars>>

\* the user dismisses the picker: ui.showQuickPick throws UserCancelledError
UserCancels(t) ==
    /\ tasks[t].pc = "pick"
    /\ tasks' = [tasks EXCEPT ![t] = IdleTask]
    /\ last' = [Ended(tasks[t], "throw", "UserCancelledError", <<>>) EXCEPT
                   !.choice = "cancel"]
    /\ cachedChildren' = [cachedChildren EXCEPT !.nodes = Forget(@)]
    /\ UNCHANGED <<creatingNodes, hasMore, descriptor, limit, workflowVars>>

(***************************************************************************)
(* AzureTreeDataProvider.getChildren(node) of a parent node                *)
(***************************************************************************)
\* lines 472-475: the leaf that stands for an error
errorNode(message) ==
    [label |-> <<"Error: {0}", message>>, contextValue |-> "azureextensionui.error"]

\* a getChildren without its catch block
rethrown(t, task, err) == Throw(t, task, err)

\* callWithTelemetryAndErrorHandling with rethrowError set (line 450): what it
\* throws when its callback threw `err`
callWithTelemetryAndErrorHandling(rethrowError, err) ==
    IF rethrowError THEN err ELSE "none"

\* lines 443 and 471-476: what is thrown below getChildren ends in its catch
\* block; the history keeps the error in `err`
caught(t, task, err) ==
    /\ tasks' = [tasks EXCEPT ![t] = IdleTask]
    /\ last' = Ended(task, "ok", err,
                     <<errorNode(callWithTelemetryAndErrorHandling(TRUE, err))>>)

\* an await of the descriptor throws `err` in call t
Fail(t, task, err) ==
    IF task.k = "children" THEN caught(t, task, err) ELSE Throw(t, task, err)

\* a result with the cached children before the placeholders
childrenBeforeCreating(creating, nodes, more) ==
    nodes \o creating \o
        (IF more THEN <<[commandId |-> "loadMoreCommandId"]>> ELSE <<>>)

\* lines 460-463: the placeholders, the cached children, the "load more" node
childrenOf(creating, nodes, more) ==
    creating \o nodes \o
        (IF more THEN <<[commandId |-> "loadMoreCommandId"]>> ELSE <<>>)

\* lines 453-463: getChildren of the parent node
GetChildren(t) ==
    /\ FreeSlot(t)
    /\ IF ~cachedChildren.defined
       THEN /\ loadMoreChildrenBegin(t, NewTask("getChildren", "children"), Forgotten)
            /\ last' = NoCall
       ELSE /\ Return(t, NewTask("getChildren", "children"),
                      childrenOf(creatingNodes, Forgotten.nodes, hasMore))
            /\ cachedChildren' = Forgotten
    /\ UNCHANGED <<creatingNodes, hasMore, descriptor, limit, workflowVars>>

(***************************************************************************)
(* The descriptor answers a pending treeItem.loadMoreChildren.             *)
(***************************************************************************)
\* a "load more" entry that returns the parent without a notification
loadMoreDataSilently(t, task, nodes) ==
    /\ tasks' = [tasks EXCEPT ![t] = IdleTask]
    /\ last' = [Ended(task, "ok", "", <<ThisNode>>) EXCEPT !.choice = "more"]
    /\ cachedChildren' = Loaded(Forget(nodes))

\* lines 767-771, the data of the "load more" entry, once its loadMoreChildren
\* has returned: refresh(this, false), return this
loadMoreData(t, task, nodes) ==
    /\ tasks' = [tasks EXCEPT ![t] = IdleTask]
    /\ last' = [Ended([task EXCEPT !.fired = fire(@, "parent")], "ok", "",
                      <<ThisNode>>) EXCEPT !.choice = "more"]
    /\ cachedChildren' = Loaded(Forget(nodes))

\* what the code after line 687 does with the page, by the caller awaiting it
AfterFetch(t, task, nodes, more) ==
    CASE task.k = "lmc" ->
            /\ Return(t, task, <<>>)
            /\ cachedChildren' = Loaded(Forget(nodes))
      [] task.k = "gcc" ->
            /\ Return(t, task, Forget(nodes))
            /\ cachedChildren' = Loaded(Forget(nodes))
      [] task.k = "pickMore" -> loadMoreData(t, task, nodes)
      [] task.k = "pick" ->
            pickFromChildren(t, task, Loaded(nodes), more, last)
      [] task.k = "children" ->
            /\ Return(t, task, childrenOf(creatingNodes, Forget(nodes), more))
            /\ cachedChildren' = Loaded(Forget(nodes))

\* lines 687-690, and what follows them in the caller: the page arrives
FetchReturns(t, page, more) ==
    /\ tasks[t].pc = "fetch"
    /\ Len(cachedChildren.nodes) + Len(page) <= MaxCache
    /\ hasMore' = more
    /\ LET task == [tasks[t] EXCEPT !.fetches = Append(@,
                        [clear |-> tasks[t].clear, page |-> page,
                         pre |-> ItemsOf(cachedChildren.nodes)])]
           nodes == concatAndSort(cachedChildren.nodes, page, descriptor.custom)
       IN  IF cachedChildren.defined
           THEN AfterFetch(t, task, nodes, more)
           ELSE \* this._cachedChildren is undefined: .concat throws a TypeError
                /\ UNCHANGED cachedChildren
                /\ Fail(t, task, "TypeError")
    /\ UNCHANGED <<creatingNodes, descriptor, limit, workflowVars>>

FetchThrows(t) ==
    /\ tasks[t].pc = "fetch"
    /\ Fail(t, tasks[t], "fetchError")
    /\ cachedChildren' = [cachedChildren EXCEPT !.nodes = Forget(@)]
    /\ UNCHANGED <<creatingNodes, hasMore, descriptor, limit, workflowVars>>

(***************************************************************************)
(* The deploy workflows: SiteWrapper.deployZip with                        *)
(* waitForDeploymentToComplete, and deployRunFromZip.  A call is suspended  *)
(* where it awaits the user, the file utilities or a remote service; pc     *)
(* names the call it awaits.  events lists, in order, the calls the         *)
(* workflow issued, the status results it saw and the lines it logged.      *)
(***************************************************************************)
\* what fsPath names: a zip file, a directory, or neither
FsPaths == {"zip", "directory", "other"}

\* the zip file handed in as fsPath, and the one zipDirectory makes
InputZip == "fsPath"

TmpZip == "tmpZip"

\* the application settings of a site, by name; a value is a string, given as
\* the sequence of its parts, and <<>> is a setting that is not there
SettingNames == {"WEBSITE_USE_ZIP", "OTHER"}

NoSettings == [n \in SettingNames |-> <<>>]

AppSettings == [SettingNames -> {<<>>, <<"old">>}]

\* what blobService.getUrl may return: the URL with its SAS token, in which a
\* colon may be encoded
BlobUrls ==
    {<<"https://blob?se=10", "%3A", "00", "%3A", "00">>, <<"https://blob?sv=1">>}

NoDeploy ==
    [pc |-> "idle", workflow |-> "none", fsPath |-> "other", createdZip |-> FALSE,
     zipFilePath |-> "", error |-> "", deploymentId |-> "latest", polls |-> 0,
     step |-> 0, events |-> <<>>, outcome |-> "none",
     scmType |-> "", confirmDeployment |-> FALSE,
     lookups |-> <<>>, reported |-> <<>>,
     site |-> NoSettings, before |-> NoSettings, blobUrl |-> <<>>,
     sent |-> [defined |-> FALSE, properties |-> NoSettings]]

Started(workflow, fsPath) == [NoDeploy EXCEPT !.workflow = workflow, !.fsPath = fsPath]

\* the events: a call the workflow issued, a status result it saw, a line it logged
Called(name) == <<"call", name>>

Saw(result) == <<"result", result>>

Logged(message) == <<"log", message>>

\* the workflow issues a call
call(d, name) == [d EXCEPT !.events = Append(@, Called(name))]

\* the poll loop reads the complete flag of a status result
saw(d, complete) ==
    [d EXCEPT !.events = Append(@, Saw(IF complete THEN "complete" ELSE "incomplete"))]

\* SiteWrapper.log / outputChannel.appendLine of the message with this key
log(d, message) == [d EXCEPT !.events = Append(@, Logged(message))]

EndOk(d) == [d EXCEPT !.pc = "done", !.outcome = "ok"]

EndThrow(d, err) == [d EXCEPT !.pc = "done", !.outcome = "throw", !.error = err]

\* FileUtilities.zipDirectory: the zip file exists once it returned
zipDirectory(existing, path) == existing \cup {path}

\* FileUtilities.deleteFile: the file is gone once it returned
deleteFile(existing, path) == existing \ {path}

\* the catch block: an error with a response body is replaced by an Error of
\* that body, any other error is rethrown as it is
catchError(withBody) == IF withBody THEN "Error(response.body)" ELSE "error"

\* a deployZip that returns without the line that logs the completion
finishWithoutLog(d) ==
    IF d.error # "" THEN EndThrow(d, d.error) ELSE EndOk(d)

\* what follows the finally block: the error of the try block is thrown on, or
\* deployZip logs the completion and returns
finish(d) ==
    IF d.error # "" THEN EndThrow(d, d.error)
    ELSE IF d.workflow = "deployZip" THEN EndOk(log(d, "deployComplete"))
    ELSE EndOk(d)

\* a finally block that deletes nothing
finallyKeepsZip(d) == finish(d)

\* a finally block that deletes the zip file whoever made it
finallyDeletesAlways(d) == [call(d, "deleteFile") EXCEPT !.pc = "deleteFile"]

\* the finally block: the zip this call created is deleted
finallyBlock(d) ==
    IF d.createdZip
    THEN [call(d, "deleteFile") EXCEPT !.pc = "deleteFile"]
    ELSE finish(d)

\* the calls of deployRunFromZip's try block, in order
RunFromZipSteps ==
    <<"listStorageAccounts", "showQuickPickWithData", "createBlobService",
      "createBlobFromZip", "listApplicationSettings", "updateApplicationSettings">>

\* the try block begins: deployZip logs and starts the push, deployRunFromZip
\* lists the storage accounts
beginTry(d) ==
    IF d.workflow = "deployZip"
    THEN [call(log(d, "deployStart"), "zipPushDeploy") EXCEPT !.pc = "zipPushDeploy"]
    ELSE [call(d, RunFromZipSteps[1]) EXCEPT !.pc = "runFromZip", !.step = 1]

\* fsPath is resolved to a zip file: taken as it is, or zipped, or rejected
resolveZipFile(d) ==
    CASE d.fsPath = "zip" -> beginTry([d EXCEPT !.zipFilePath = InputZip])
      [] d.fsPath = "directory" ->
             [call(log([d EXCEPT !.createdZip = TRUE], "zipCreate"), "zipDirectory")
                 EXCEPT !.pc = "zipDirectory"]
      [] OTHER -> EndThrow(d, "NotAZipError")

\* lines 312 and 324: kuduClient.deployment.getResult(deploymentId); lookups
\* keeps the id of every lookup
getResult(d) ==
    [call(d, "getResult") EXCEPT !.pc = "getResult", !.lookups = Append(@, d.deploymentId)]

\* waitForDeploymentToComplete has returned: localGitDeploy logs the completion
\* and returns (line 282), the try block of deployZip is through
afterWait(d) ==
    IF d.workflow = "localGitDeploy"
    THEN EndOk(log(d, "deployComplete"))
    ELSE finallyBlock(d)

\* a poll loop that takes a failed lookup for the end of the deployment
waitEndsOnError(d, withBody) == afterWait(d)

\* waitForDeploymentToComplete has thrown: localGitDeploy throws the error on,
\* deployZip catches it
waitThrows(d, withBody) ==
    IF d.workflow = "localGitDeploy"
    THEN EndThrow(d, "error")
    ELSE finallyBlock([d EXCEPT !.error = catchError(withBody)])

\* a poll loop that takes the first status result for the last
waitForFirstResult(d, deployment) ==
    afterWait(saw(d, deployment.complete))

\* a poll loop without lines 314-317: every lookup is of 'latest'
waitWithLatest(d, deployment) ==
    IF deployment.complete
    THEN afterWait(saw(d, TRUE))
    ELSE LET seen == saw(d, FALSE)
             logged == IF deployment.progress THEN log(seen, "progress") ELSE seen
         IN  [getResult(logged) EXCEPT !.polls = @ + 1]

\* waitForDeploymentToComplete with a status result: the loop ends on a
\* complete one; on an incomplete one it keeps the permanent id, logs the
\* progress, waits and looks up again
waitForDeploymentToComplete(d, deployment) ==
    IF deployment.complete
    THEN afterWait(saw(d, TRUE))
    ELSE LET seen == saw(d, FALSE)
             withId == IF ~deployment.isTemp /\ deployment.hasId
                       THEN [seen EXCEPT !.deploymentId = "id"] ELSE seen
             logged == IF deployment.progress THEN log(withId, "progress") ELSE withId
         IN  [getResult(logged) EXCEPT !.polls = @ + 1]

\* what kuduClient.deployment.getResult may answer: DeployResult
DeployResults == [complete : BOOLEAN, isTemp : BOOLEAN, hasId : BOOLEAN, progress : BOOLEAN]

\* lines 200-208: deployZip up to its first await
deployZipBegin(d, confirmDeployment) ==
    LET zip == [d EXCEPT !.workflow = "deployZip"]
    IN  IF confirmDeployment
        THEN [zip EXCEPT !.pc = "showWarningMessage"]
        ELSE [call(zip, "show") EXCEPT !.pc = "getKuduClient"]

\* line 246: localGitDeploy up to its first await
localGitDeployBegin(d) ==
    [d EXCEPT !.workflow = "localGitDeploy", !.pc = "getKuduClient"]

\* a deploy that takes the zip path whatever the source type is
alwaysDeployZip(d, scmType) ==
    deployZipBegin([d EXCEPT !.scmType = scmType], d.confirmDeployment)

\* lines 146-153: the switch on config.scmType
switchOnScmType(d, scmType) ==
    IF scmType = "LocalGit"
    THEN localGitDeployBegin([d EXCEPT !.scmType = scmType])
    ELSE deployZipBegin([d EXCEPT !.scmType = scmType], d.confirmDeployment)

\* deployZip(fsPath, client, outputChannel, confirmDeployment) is called
DeployZip(fsPath, confirmDeployment) ==
    /\ dep.pc \in {"idle", "done"}
    /\ files' = IF fsPath = "zip" THEN {InputZip} ELSE {}
    /\ dep' = deployZipBegin(Started("deployZip", fsPath), confirmDeployment)
    /\ UNCHANGED <<treeVars, scmVars, deleteVars, providerVars>>

\* deploy(fsPath, client, outputChannel, confirmDeployment) is called
Deploy(fsPath, confirmDeployment) ==
    /\ dep.pc \in {"idle", "done"}
    /\ files' = IF fsPath = "zip" THEN {InputZip} ELSE {}
    /\ dep' = [Started("deploy", fsPath) EXCEPT
                  !.confirmDeployment = confirmDeployment, !.pc = "getSiteConfig"]
    /\ UNCHANGED <<treeVars, scmVars, deleteVars, providerVars>>

\* line 145: the configuration of the site arrives
DeployConfigReturns ==
    /\ dep.pc = "getSiteConfig"
    /\ dep' = switchOnScmType(dep, siteConfig)
    /\ UNCHANGED <<files, treeVars, scmVars, deleteVars, providerVars>>

\* an await of deploy or localGitDeploy outside its try block throws
DeployCallThrows ==
    /\ dep.pc \in {"getSiteConfig", "getWebAppPublishCredential", "forcePush"}
    /\ dep' = EndThrow(dep, "error")
    /\ UNCHANGED <<files, treeVars, scmVars, deleteVars, providerVars>>

\* lines 280-281: after the try statement of localGitDeploy
localGitWait(d) == getResult(log(d, "localGitDeploy"))

\* lines 248-261: an await of localGitDeploy returns; status may have found
\* uncommitted changes, which gives a warning that is not awaited
LocalGitCallReturns(uncommitted) ==
    /\ dep.pc \in {"getWebAppPublishCredential", "status", "push", "forcePush"}
    /\ uncommitted => dep.pc = "status"
    /\ dep' = CASE dep.pc = "getWebAppPublishCredential" ->
                     [call(dep, "status") EXCEPT !.pc = "status"]
                [] dep.pc = "status" ->
                     [call(IF uncommitted THEN call(dep, "showUncommitted") ELSE dep,
                           "push") EXCEPT !.pc = "push"]
                [] OTHER -> localGitWait(dep)
    /\ UNCHANGED <<files, treeVars, scmVars, deleteVars, providerVars>>

\* an error that status or push threw, kept with the events
Threw(message) == <<"throw", message>>

\* lines 262-278: status or push throws an error with this message
LocalGitThrows(message) ==
    /\ dep.pc \in {"status", "push"}
    /\ LET d == [dep EXCEPT !.events = Append(@, Threw(message))]
       IN  dep' = CASE message = "spawn git ENOENT" ->
                         [call(d, "showInstallPrompt") EXCEPT !.pc = "showInstallPrompt"]
                    [] message = "error: failed to push" ->
                         [call(d, "showErrorMessage") EXCEPT !.pc = "showErrorMessage"]
                    [] OTHER -> EndThrow(d, "error")
    /\ UNCHANGED <<files, treeVars, scmVars, deleteVars, providerVars>>

\* a localGitDeploy without the return of line 266: after the install prompt
\* it goes on to lines 280-281
InstallPromptThenWait ==
    /\ dep.pc = "showInstallPrompt"
    /\ dep' = localGitWait(dep)
    /\ UNCHANGED <<files, treeVars, scmVars, deleteVars, providerVars>>

\* lines 341-348 and 266: the install prompt is answered, the deploy returns
InstallPromptAnswered ==
    /\ dep.pc = "showInstallPrompt"
    /\ dep' = EndOk(dep)
    /\ UNCHANGED <<files, treeVars, scmVars, deleteVars, providerVars>>

\* what the user may answer to the force-push question: a button, or nothing
PushRejectInputs == {"yes", "cancel", "undefined"}

\* the user's answer to a question, kept with the events
Answered(input) == <<"answer", input>>

\* a localGitDeploy that force-pushes whatever the answer is
forcePushAlways(d, input) ==
    [call([d EXCEPT !.events = Append(@, Answered(input))], "forcePush") EXCEPT
        !.pc = "forcePush"]

\* lines 269-275: yes force-pushes, anything else cancels
forcePushOrCancel(d, input) ==
    LET answered == [d EXCEPT !.events = Append(@, Answered(input))]
    IN  IF input = "yes"
        THEN [call(answered, "forcePush") EXCEPT !.pc = "forcePush"]
        ELSE EndThrow(answered, "UserCancelledError")

\* line 268: the force-push question is answered
PushRejectAnswered(input) ==
    /\ dep.pc = "showErrorMessage"
    /\ dep' = forcePushOrCancel(dep, input)
    /\ UNCHANGED <<files, treeVars, scmVars, deleteVars, providerVars>>

\* the user answers the warning: anything but yes cancels
WarningAnswered(yes) ==
    /\ dep.pc = "showWarningMessage"
    /\ dep.workflow = "deployZip"
    /\ dep' = IF yes
              THEN [call(dep, "show") EXCEPT !.pc = "getKuduClient"]
              ELSE EndThrow(dep, "UserCancelledError")
    /\ UNCHANGED <<files, treeVars, scmVars, deleteVars, providerVars>>

GetKuduClientReturns ==
    /\ dep.pc = "getKuduClient"
    /\ dep' = IF dep.workflow = "localGitDeploy"
              THEN [call(dep, "getWebAppPublishCredential") EXCEPT
                       !.pc = "getWebAppPublishCredential"]
              ELSE resolveZipFile(dep)
    /\ UNCHANGED <<files, treeVars, scmVars, deleteVars, providerVars>>

GetKuduClientThrows ==
    /\ dep.pc = "getKuduClient"
    /\ dep' = EndThrow(dep, "error")
    /\ UNCHANGED <<files, treeVars, scmVars, deleteVars, providerVars>>

\* deployRunFromZip(client, fsPath, outputChannel) is called for a site that
\* has the application settings `settings`
DeployRunFromZip(fsPath, settings) ==
    /\ dep.pc \in {"idle", "done"}
    /\ files' = IF fsPath = "zip" THEN {InputZip} ELSE {}
    /\ dep' = resolveZipFile(call([Started("deployRunFromZip", fsPath) EXCEPT
                                      !.site = settings, !.before = settings],
                                  "show"))
    /\ UNCHANGED <<treeVars, scmVars, deleteVars, providerVars>>

\* zipDirectory returns the path of the zip it made: the try block begins
ZipDirectoryReturns ==
    /\ dep.pc = "zipDirectory"
    /\ files' = zipDirectory(files, TmpZip)
    /\ dep' = beginTry([dep EXCEPT !.zipFilePath = TmpZip])
    /\ UNCHANGED <<treeVars, scmVars, deleteVars, providerVars>>

\* zipDirectory fails: no zip was made, and the call is outside the try block
ZipDirectoryThrows ==
    /\ dep.pc = "zipDirectory"
    /\ dep' = EndThrow(dep, "error")
    /\ UNCHANGED <<files, treeVars, scmVars, deleteVars, providerVars>>

\* the push was accepted: waitForDeploymentToComplete looks up 'latest'
ZipPushDeployReturns ==
    /\ dep.pc = "zipPushDeploy"
    /\ dep' = getResult(dep)
    /\ UNCHANGED <<files, treeVars, scmVars, deleteVars, providerVars>>

ZipPushDeployThrows(withBody) ==
    /\ dep.pc = "zipPushDeploy"
    /\ dep' = finallyBlock([dep EXCEPT !.error = catchError(withBody)])
    /\ UNCHANGED <<files, treeVars, scmVars, deleteVars, providerVars>>

\* a status lookup answers; reported keeps, for every answer, whether it
\* carried a permanent id
GetResultReturns(deployment) ==
    /\ dep.pc = "getResult"
    /\ deployment.complete \/ dep.polls < MaxPolls
    /\ dep' = waitForDeploymentToComplete(
                  [dep EXCEPT !.reported =
                      Append(@, ~deployment.isTemp /\ deployment.hasId)],
                  deployment)
    /\ UNCHANGED <<files, treeVars, scmVars, deleteVars, providerVars>>

\* a status lookup fails: the loop has no catch block
GetResultThrows(withBody) ==
    /\ dep.pc = "getResult"
    /\ dep' = waitThrows(dep, withBody)
    /\ UNCHANGED <<files, treeVars, scmVars, deleteVars, providerVars>>

\* String.prototype.replace(a, b) with a string pattern: the first occurrence
RECURSIVE replace(_, _, _)
replace(str, a, b) ==
    IF str = <<>> THEN <<>>
    ELSE IF Head(str) = a THEN <<b>> \o Tail(str)
    ELSE <<Head(str)>> \o replace(Tail(str), a, b)

\* an update that sends the one setting alone
useZipOnly(appSettings, blobUrl) ==
    [NoSettings EXCEPT !["WEBSITE_USE_ZIP"] = replace(blobUrl, "%3A", ":")]

\* part_001 line 131: the settings read from the site, with WEBSITE_USE_ZIP set
useZip(appSettings, blobUrl) ==
    [appSettings EXCEPT !["WEBSITE_USE_ZIP"] = replace(blobUrl, "%3A", ":")]

\* what a call of the try block leaves when it returns: createBlobFromZip the
\* URL, listApplicationSettings the settings that are sent next, and
\* updateApplicationSettings the settings of the site
stepReturned(d, blobUrl) ==
    CASE RunFromZipSteps[d.step] = "createBlobFromZip" ->
            log([d EXCEPT !.blobUrl = blobUrl], "deployStart")
      [] RunFromZipSteps[d.step] = "listApplicationSettings" ->
            [d EXCEPT !.sent = [defined |-> TRUE,
                                properties |-> useZip(d.site, d.blobUrl)]]
      [] RunFromZipSteps[d.step] = "updateApplicationSettings" ->
            [d EXCEPT !.site = d.sent.properties]
      [] OTHER -> d

\* a call of deployRunFromZip's try block returns: the next one is issued
\* ('Starting deployment...' is logged once the blob is there), or the try
\* block is through
RunFromZipStepReturns(blobUrl) ==
    /\ dep.pc = "runFromZip"
    /\ dep' = IF dep.step = Len(RunFromZipSteps)
              THEN finallyBlock(stepReturned(dep, blobUrl))
              ELSE [call(stepReturned(dep, blobUrl), RunFromZipSteps[dep.step + 1])
                       EXCEPT !.step = @ + 1]
    /\ UNCHANGED <<files, treeVars, scmVars, deleteVars, providerVars>>

\* a call of deployRunFromZip's try block fails, or the user dismisses the
\* storage account picker
RunFromZipStepThrows(withBody) ==
    /\ dep.pc = "runFromZip"
    /\ dep' = finallyBlock([dep EXCEPT !.error = catchError(withBody)])
    /\ UNCHANGED <<files, treeVars, scmVars, deleteVars, providerVars>>

\* deleteFile returns: what follows the finally block
DeleteFileReturns ==
    /\ dep.pc = "deleteFile"
    /\ files' = deleteFile(files, dep.zipFilePath)
    /\ dep' = finish(dep)
    /\ UNCHANGED <<treeVars, scmVars, deleteVars, providerVars>>

(***************************************************************************)
(* The source-control (SCM) edit workflow: SiteWrapper.editScmType, and    *)
(* the editScmType function with its GitHub branch.                        *)
(***************************************************************************)
\* what the site may report as config.scmType
ScmTypeNames == {"None", "LocalGit", "GitHub", "VSTSRM"}

\* the deployment sources SiteWrapper offers
SCM_TYPES == <<"None", "LocalGit">>

\* the values of the ScmType enumeration, in the order of its keys.  Its module
\* is not among the sources: it may be any list of source types.
ScmTypeEnums == SeqsUpTo(ScmTypeNames, MaxScmTypes) \ {<<>>}

currentSource == "(Current source)"

\* a list of sources that marks none as the current one
scmQuickPicksUnmarked(types, currentScmType) ==
    [i \in DOMAIN types |-> [label |-> types[i], description |-> ""]]

\* the loop of showScmPrompt: the current source is put on top of the list and
\* marked, the others are appended
RECURSIVE scmQuickPicksLoop(_, _, _)
scmQuickPicksLoop(scmQuickPicks, types, currentScmType) ==
    IF types = <<>> THEN scmQuickPicks
    ELSE scmQuickPicksLoop(
             IF Head(types) = currentScmType
             THEN <<[label |-> Head(types), description |-> currentSource]>>
                      \o scmQuickPicks
             ELSE Append(scmQuickPicks, [label |-> Head(types), description |-> ""]),
             Tail(types), currentScmType)

showScmPromptPicks(types, currentScmType) == scmQuickPicksLoop(<<>>, types, currentScmType)

\* the user picked nothing (yet)
NoPick == [label |-> "", description |-> "undefined"]

NoEdit ==
    [pc |-> "idle", version |-> "none", types |-> <<>>, config |-> "",
     picks |-> <<>>, quickPick |-> NoPick, newScmType |-> "", calls |-> <<>>,
     outcome |-> "none", error |-> ""]

EditOk(e) == [e EXCEPT !.pc = "done", !.outcome = "ok"]

EditThrow(e, err) == [e EXCEPT !.pc = "done", !.outcome = "throw", !.error = err]

issue(e, name) == [e EXCEPT !.calls = Append(@, name), !.pc = name]

\* editScmType is called: SiteWrapper's method offers SCM_TYPES, the function
\* offers the ScmType enumeration
EditScmType(version, types) ==
    /\ scm.pc \in {"idle", "done"}
    /\ version = "SiteWrapper" => types = SCM_TYPES
    /\ scm' = issue([NoEdit EXCEPT !.version = version, !.types = types],
                    "getSiteConfig")
    /\ UNCHANGED <<siteConfig, treeVars, deployVars, deleteVars, providerVars>>

\* the site's configuration arrives: showScmPrompt shows its list
GetSiteConfigReturns ==
    /\ scm.pc = "getSiteConfig"
    /\ scm' = [scm EXCEPT !.pc = "showQuickPick", !.config = siteConfig,
                          !.picks = showScmPromptPicks(scm.types, siteConfig)]
    /\ UNCHANGED <<siteConfig, treeVars, deployVars, deleteVars, providerVars>>

GetSiteConfigThrows ==
    /\ scm.pc = "getSiteConfig"
    /\ scm' = EditThrow(scm, "error")
    /\ UNCHANGED <<siteConfig, treeVars, deployVars, deleteVars, providerVars>>

\* an editScmType that connects to GitHub whatever the current source is
updateScmTypeUnchecked(e, newScmType) ==
    LET chosen == [e EXCEPT !.newScmType = newScmType]
    IN  IF e.version = "editScmType" /\ newScmType = "GitHub"
        THEN issue(chosen, "connectToGitHub")
        ELSE issue(chosen, "updateConfiguration")

\* SiteWrapper.updateScmType, and the branches of the function editScmType:
\* what is done with the source type the prompt returned
updateScmType(e, newScmType) ==
    LET chosen == [e EXCEPT !.newScmType = newScmType]
    IN  IF e.version = "editScmType" /\ newScmType = "GitHub"
        THEN IF e.config # "None"
             THEN EditThrow(chosen, "configurationError")
             ELSE issue(chosen, "connectToGitHub")
        ELSE issue(chosen, "updateConfiguration")

\* the result of showScmPrompt for the entry the user selected: the entry
\* marked as the current source counts as a cancel
showScmPrompt(e, quickPick) ==
    IF quickPick.description = currentSource
    THEN EditThrow([e EXCEPT !.quickPick = quickPick], "UserCancelledError")
    ELSE updateScmType([e EXCEPT !.quickPick = quickPick], quickPick.label)

\* the user selects entry i of the list
ScmUserSelects(i) ==
    /\ scm.pc = "showQuickPick"
    /\ i \in DOMAIN scm.picks
    /\ scm' = showScmPrompt(scm, scm.picks[i])
    /\ UNCHANGED <<siteConfig, treeVars, deployVars, deleteVars, providerVars>>

\* the user dismisses the list: showQuickPick gives undefined to SiteWrapper,
\* and the ui of the function throws the cancellation itself
ScmUserDismisses ==
    /\ scm.pc = "showQuickPick"
    /\ scm' = EditThrow(scm, "UserCancelledError")
    /\ UNCHANGED <<siteConfig, treeVars, deployVars, deleteVars, providerVars>>

\* the site took the new configuration
UpdateConfigurationReturns ==
    /\ scm.pc = "updateConfiguration"
    /\ siteConfig' = scm.newScmType
    /\ scm' = EditOk(scm)
    /\ UNCHANGED <<treeVars, deployVars, deleteVars, providerVars>>

UpdateConfigurationThrows ==
    /\ scm.pc = "updateConfiguration"
    /\ scm' = EditThrow(scm, "error")
    /\ UNCHANGED <<siteConfig, treeVars, deployVars, deleteVars, providerVars>>

\* connectToGitHub connected the site to a repository
ConnectToGitHubReturns ==
    /\ scm.pc = "connectToGitHub"
    /\ siteConfig' = "GitHub"
    /\ scm' = EditOk(scm)
    /\ UNCHANGED <<treeVars, deployVars, deleteVars, providerVars>>

ConnectToGitHubThrows ==
    /\ scm.pc = "connectToGitHub"
    /\ scm' = EditThrow(scm, "error")
    /\ UNCHANGED <<siteConfig, treeVars, deployVars, deleteVars, providerVars>>

\* no workflow has been started
(***************************************************************************)
(* Deleting a site: SiteWrapper.deleteSite and the function deleteSite.    *)
(* A call is a record: the site it deletes, its locals, the prompts it     *)
(* showed and the calls it issued in order, and how it ended.              *)
(***************************************************************************)
NoPlan == [defined |-> FALSE, numberOfSites |-> 0]

AppServicePlan(n) == [defined |-> TRUE, numberOfSites |-> n]

NoDelete ==
    [pc |-> "idle", version |-> "SiteWrapper", isSlot |-> FALSE, plan |-> NoPlan,
     sites |-> 0, deletePlan |-> FALSE, deleteEmptyServerFarm |-> "none", answers |-> <<>>, events |-> <<>>,
     outcome |-> "none", error |-> "none"]

DeleteOk(d) == [d EXCEPT !.pc = "done", !.outcome = "return"]

DeleteThrow(d, error) == [d EXCEPT !.pc = "done", !.outcome = "throw", !.error = error]

did(d, name) == [d EXCEPT !.events = Append(@, name)]

\* the answers a warning can get: one of its items, or none when dismissed
ConfirmItems(version) ==
    IF version = "SiteWrapper" THEN {"yes", "cancel"} ELSE {"deleteResponse", "cancel"}

PlanItems == {"yes", "no", "cancel"}

\* IAzureUserInput.showWarningMessage: the items it may return.  The user's
\* cancellation, by the cancel item or by dismissing the message, is thrown as
\* UserCancelledError and is never a return value.
uiShowWarningMessage(items) == items \ {"cancel"}

\* deleteSite is called for a site, or a slot, whose App Service plan holds
\* `sites` sites; the first statement: the confirmation is shown
DeleteSite(version, isSlot, sites) ==
    /\ del.pc = "idle"
    /\ del' = did([NoDelete EXCEPT !.pc = "confirm", !.version = version,
                                   !.isSlot = isSlot, !.sites = sites],
                  "confirmation")
    /\ UNCHANGED <<treeVars, deployVars, scmVars, providerVars>>

\* a delete call that always asks for the empty plan to be deleted
issueDeleteWithPlan(d) ==
    LET logged == did(did(d, "show"), "Deleting")
        name   == IF d.version = "SiteWrapper" /\ d.isSlot
                  THEN "deleteSlot" ELSE "deleteMethod"
    IN  [did(logged, name) EXCEPT !.pc = "delete", !.deleteEmptyServerFarm = "true"]

\* the output channel is shown and written, and the delete call is issued:
\* deleteMethod with the option deleteEmptyServerFarm, deleteSlot without it
issueDelete(d) ==
    LET logged == did(did(d, "show"), "Deleting")
        name   == IF d.version = "SiteWrapper" /\ d.isSlot
                  THEN "deleteSlot" ELSE "deleteMethod"
    IN  [did(logged, name) EXCEPT
            !.pc = "delete",
            !.deleteEmptyServerFarm =
                IF name = "deleteSlot" THEN "none"
                ELSE IF d.deletePlan THEN "true" ELSE "false"]

\* a slot that runs the statements of a site
lookupPlanAlways(d) ==
    [did(d, "getAppServicePlan") EXCEPT !.pc = "plan"]

\* after the confirmation: the plan is looked up for a site, not for a slot
lookupPlan(d) ==
    IF ~d.isSlot
    THEN [did(d, "getAppServicePlan") EXCEPT !.pc = "plan"]
    ELSE issueDelete(d)

\* a deleteSite that asks about no plan
askNothing(d) == issueDelete(d)

\* after the lookup: the plan prompt is shown for the last site of a plan
askAboutPlan(d) ==
    IF ~d.isSlot /\ d.plan.numberOfSites < 2
    THEN [did(d, "planPrompt") EXCEPT !.pc = "planPrompt"]
    ELSE issueDelete(d)

\* a deleteSite that goes on whatever the answer to the confirmation is
ConfirmationIgnored(answer) ==
    /\ del.pc = "confirm"
    /\ del.version = "SiteWrapper"
    /\ del' = lookupPlan([del EXCEPT !.answers = Append(@, answer)])
    /\ UNCHANGED <<treeVars, deployVars, scmVars, providerVars>>

\* vscode.window.showWarningMessage resolves with an item or with undefined
ConfirmationAnswered(answer) ==
    /\ del.pc = "confirm"
    /\ del.version = "SiteWrapper"
    /\ LET d == [del EXCEPT !.answers = Append(@, answer)]
       IN  del' = IF answer # "yes"
                  THEN DeleteThrow(d, "UserCancelledError")
                  ELSE lookupPlan(d)
    /\ UNCHANGED <<treeVars, deployVars, scmVars, providerVars>>

\* ui.showWarningMessage returns an item, which the function does not read
UiConfirmationReturns(answer) ==
    /\ del.pc = "confirm"
    /\ del.version = "deleteSite"
    /\ answer \in uiShowWarningMessage(ConfirmItems(del.version))
    /\ del' = lookupPlan([del EXCEPT !.answers = Append(@, answer)])
    /\ UNCHANGED <<treeVars, deployVars, scmVars, providerVars>>

\* ui.showWarningMessage throws, at either prompt of the function: the user
\* cancelled
UiThrows ==
    /\ del.pc \in {"confirm", "planPrompt"}
    /\ del.version = "deleteSite"
    /\ del' = DeleteThrow([del EXCEPT !.answers = Append(@, "cancelled")],
                          "UserCancelledError")
    /\ UNCHANGED <<treeVars, deployVars, scmVars, providerVars>>

\* client.appServicePlans.get answers with the plan as it is
GetAppServicePlanReturns ==
    /\ del.pc = "plan"
    /\ del' = askAboutPlan([del EXCEPT !.plan = AppServicePlan(del.sites)])
    /\ UNCHANGED <<treeVars, deployVars, scmVars, providerVars>>

GetAppServicePlanThrows ==
    /\ del.pc = "plan"
    /\ del' = DeleteThrow(del, "remoteError")
    /\ UNCHANGED <<treeVars, deployVars, scmVars, providerVars>>

\* the answer to the plan prompt: undefined cancels in SiteWrapper.deleteSite
PlanPromptAnswered(answer) ==
    /\ del.pc = "planPrompt"
    /\ del.version = "SiteWrapper" \/ answer \in uiShowWarningMessage(PlanItems)
    /\ LET d == [del EXCEPT !.answers = Append(@, answer)]
       IN  del' = IF d.version = "SiteWrapper" /\ answer = "undefined"
                  THEN DeleteThrow(d, "UserCancelledError")
                  ELSE issueDelete([d EXCEPT !.deletePlan = (answer = "yes")])
    /\ UNCHANGED <<treeVars, deployVars, scmVars, providerVars>>

DeleteReturns ==
    /\ del.pc = "delete"
    /\ del' = DeleteOk(did(del, "DeleteSucceeded"))
    /\ UNCHANGED <<treeVars, deployVars, scmVars, providerVars>>

DeleteThrows ==
    /\ del.pc = "delete"
    /\ del' = DeleteThrow(del, "remoteError")
    /\ UNCHANGED <<treeVars, deployVars, scmVars, providerVars>>

(***************************************************************************)
(* AzureTreeDataProvider: the account it listens to, its root nodes.       *)
(***************************************************************************)
AzureLoginStatus == {"Initializing", "LoggingIn", "LoggedIn", "LoggedOut"}

\* AzureSubscription: a filter, whose subscription may lack id or displayName
AzureSubscriptions ==
    [id : {"sub1", "sub2"}, hasId : BOOLEAN, hasName : BOOLEAN]

\* new AzureNode(undefined, treeItem), with a child cache that is not loaded
AzureNode(label, commandId, contextValue) ==
    [label |-> label, commandId |-> commandId, contextValue |-> contextValue,
     id |-> commandId, loaded |-> FALSE]

\* line 605: new SubscriptionNode(...)
SubscriptionNode(subscriptionInfo) ==
    [label |-> subscriptionInfo.id, commandId |-> "none",
     contextValue |-> "azureextensionui.azureSubscription",
     id |-> subscriptionInfo.id, loaded |-> FALSE]

\* line 397: a RootNode of a root tree item
RootNode(i) ==
    [label |-> "root", commandId |-> "none", contextValue |-> "root",
     id |-> "root", loaded |-> FALSE]

signInNode == AzureNode("Sign in to Azure...", "azure-account.login", "azureCommandNode")

\* a getRootNodes that keeps the node it has for a subscription
reuseSubscriptionNodes(old, filters) ==
    [i \in DOMAIN filters |->
        IF \E j \in DOMAIN old : old[j].id = filters[i].id
        THEN old[CHOOSE j \in DOMAIN old : old[j].id = filters[i].id]
        ELSE SubscriptionNode(filters[i])]

\* lines 601-607 for filters that have id and displayName
newSubscriptionNodes(old, filters) ==
    [i \in DOMAIN filters |-> SubscriptionNode(filters[i])]

\* a getRootNodes that returns line 608's nodes alone
withoutCustomRootNodes(nodes, customRootNodes) == nodes

\* line 611
withCustomRootNodes(nodes, customRootNodes) == nodes \o customRootNodes

\* lines 571-612: the root nodes, the subscription nodes the provider keeps,
\* and whether line 603 threw
getRootNodes(status, filters, old, customRootNodes) ==
    LET given(nodes, subs) ==
            [threw |-> FALSE, subscriptionNodes |-> subs,
             nodes |-> withCustomRootNodes(nodes, customRootNodes)]
    IN  CASE status \in {"Initializing", "LoggingIn"} ->
                given(<<AzureNode("Loading...", "azure-account.login",
                                  "azureCommandNode")>>, <<>>)
          [] status = "LoggedOut" ->
                given(<<signInNode,
                        AzureNode("Create a Free Azure Account...",
                                  "azure-account.createAccount",
                                  "azureCommandNode")>>, <<>>)
          [] status = "LoggedIn" /\ filters = <<>> ->
                given(<<AzureNode("No subscriptions found. Edit filters...",
                                  "azure-account.selectSubscriptions",
                                  "azureCommandNode")>>, <<>>)
          [] OTHER ->
                IF \E i \in DOMAIN filters : ~filters[i].hasId \/ ~filters[i].hasName
                THEN [threw |-> TRUE, subscriptionNodes |-> <<>>, nodes |-> <<>>]
                ELSE LET subs == newSubscriptionNodes(old, filters)
                     IN  given(subs, subs)

(***************************************************************************)
(* AzureTreeDataProvider.showNodePicker and promptForRootNode.  A node is  *)
(* its context value, whether it is an AzureParentNode, and its depth in   *)
(* the tree; pickChildNode of a parent node gives one of its children, or  *)
(* the node itself after "load more", or throws.                           *)
(***************************************************************************)
SubscriptionTag == "azureextensionui.azureSubscription"

\* the nodes of the tree: roots are parents, the deepest nodes are not
PickerNodes ==
    {n \in [contextValue : ContextValues \cup {SubscriptionTag, "root"},
            parent : BOOLEAN, depth : 0..MaxDepth] :
        /\ n.depth = 0 => n.contextValue \notin ContextValues /\ n.parent
        /\ n.depth > 0 => n.contextValue \in ContextValues
        /\ n.depth = MaxDepth => ~n.parent}

\* a root node of the provider as a node of the tree
rootOf(n) == [contextValue |-> n.contextValue, parent |-> TRUE, depth |-> 0]

NoPicker ==
    [pc |-> "idle", expected |-> <<>>, ancestors |-> {}, started |-> FALSE,
     node |-> rootOf(RootNode(1)), picks |-> <<>>, shown |-> FALSE, calls |-> 0,
     outcome |-> "none", error |-> "none"]

\* a showNodePicker that returns the node it reached when that is no parent
descendToLeaf(p) ==
    IF p.node.contextValue \in Range(p.expected) \/ ~p.node.parent
    THEN [p EXCEPT !.pc = "done", !.outcome = "return"]
    ELSE [p EXCEPT !.pc = "child", !.shown = TRUE, !.calls = @ + 1]

\* lines 507-515: the loop, up to its next await or its end
descend(p) ==
    IF p.node.contextValue \in Range(p.expected)
    THEN [p EXCEPT !.pc = "done", !.outcome = "return"]
    ELSE IF p.node.parent
         THEN [p EXCEPT !.pc = "child", !.shown = TRUE, !.calls = @ + 1]
         ELSE [p EXCEPT !.pc = "done", !.outcome = "throw",
                        !.error = "noResourcesError"]

\* lines 535-556: the picks of promptForRootNode, which are then shown
promptForRootNode(p) ==
    LET command(id) == [kind |-> "command", node |-> p.node, command |-> id]
        pickOf(n) == [kind |-> "node", node |-> rootOf(n), command |-> "none"]
        first == IF account.status = "LoggedIn"
                 THEN [i \in DOMAIN provider.subscriptionNodes |->
                          pickOf(provider.subscriptionNodes[i])]
                 ELSE <<command("azure-account.login"),
                        command("azure-account.createAccount")>>
        roots == SelectSeq(provider.customRootNodes,
                           LAMBDA n : includeInNodePicker(n, p.expected, p.ancestors))
    IN  [p EXCEPT !.pc = "root", !.shown = TRUE,
                  !.picks = first \o [i \in DOMAIN roots |-> pickOf(roots[i])]]

\* lines 500-506
ShowNodePicker(expected, ancestors, started, startingNode) ==
    /\ picker.pc = "idle"
    /\ started \/ startingNode = NoPicker.node
    /\ LET p == [NoPicker EXCEPT !.expected = expected, !.ancestors = ancestors,
                                 !.started = started, !.node = startingNode]
       IN  picker' = IF started THEN descend(p) ELSE promptForRootNode(p)
    /\ UNCHANGED <<account, provider, treeVars, deployVars, scmVars, deleteVars>>

\* lines 557-568: the user picks the i-th entry of promptForRootNode
RootPicked(i) ==
    /\ picker.pc = "root"
    /\ i \in DOMAIN picker.picks
    /\ picker' = IF picker.picks[i].kind = "command"
                 THEN [picker EXCEPT !.pc = "command"]
                 ELSE descend([picker EXCEPT !.node = picker.picks[i].node])
    /\ UNCHANGED <<account, provider, treeVars, deployVars, scmVars, deleteVars>>

\* line 557: ui.showQuickPick throws, the user dismissed the list
RootPickCancelled ==
    /\ picker.pc = "root"
    /\ picker' = [picker EXCEPT !.pc = "done", !.outcome = "throw",
                                !.error = "UserCancelledError"]
    /\ UNCHANGED <<account, provider, treeVars, deployVars, scmVars, deleteVars>>

\* lines 559-565: the command of the picked entry has run
CommandReturns ==
    /\ picker.pc = "command"
    /\ picker' = IF account.status = "LoggedIn"
                 THEN promptForRootNode(picker)
                 ELSE [picker EXCEPT !.pc = "done", !.outcome = "throw",
                                     !.error = "UserCancelledError"]
    /\ UNCHANGED <<account, provider, treeVars, deployVars, scmVars, deleteVars>>

\* line 509: pickChildNode gives a child of the node, or the node itself
PickChildNodeReturns(child) ==
    /\ picker.pc = "child"
    /\ picker.calls < MaxCalls \/ child # picker.node
    /\ child = picker.node \/ child.depth = picker.node.depth + 1
    /\ picker' = descend([picker EXCEPT !.node = child])
    /\ UNCHANGED <<account, provider, treeVars, deployVars, scmVars, deleteVars>>

\* line 509: pickChildNode throws, or line 559: the command does
PickerAwaitThrows(error) ==
    /\ picker.pc \in {"child", "command"}
    /\ picker' = [picker EXCEPT !.pc = "done", !.outcome = "throw", !.error = error]
    /\ UNCHANGED <<account, provider, treeVars, deployVars, scmVars, deleteVars>>

\* no enumeration since the account changed last
NotEnumerated == [done |-> FALSE, threw |-> FALSE, result |-> <<>>, hadLoaded |-> FALSE]

ProviderIdle ==
    /\ account = [status |-> "Initializing", filters |-> <<>>]
    /\ provider = [subscriptionNodes |-> <<>>, customRootNodes |-> <<>>,
                   fired |-> FALSE, disposed |-> FALSE,
                   enumeration |-> NotEnumerated]
    /\ picker = NoPicker

\* refresh() of lines 479-491 without a node: the notification for the whole tree
refresh(p) == [p EXCEPT !.fired = TRUE, !.enumeration = NotEnumerated]

\* a listener that refreshes on every status
onStatusChangedAlways(p, status) == refresh(p)

\* lines 408-414: the listener of onStatusChanged
onStatusChanged(p, status) ==
    IF status # "LoggedIn" THEN refresh(p) ELSE p

\* what an event of the account does to the provider: its listener runs
\* unless it was disposed; what getChildren() gave is of the account as it was
listen(p, listened) ==
    [(IF p.disposed THEN p ELSE listened) EXCEPT !.enumeration = NotEnumerated]

\* the account's status changes
StatusChanged(status) ==
    /\ status # account.status
    /\ account' = [account EXCEPT !.status = status]
    /\ provider' = listen(provider, onStatusChanged(provider, status))
    /\ UNCHANGED <<picker, treeVars, deployVars, scmVars, deleteVars>>

\* line 407: the account's filters change
FiltersChanged(filters) ==
    /\ filters # account.filters
    /\ account' = [account EXCEPT !.filters = filters]
    /\ provider' = listen(provider, refresh(provider))
    /\ UNCHANGED <<picker, treeVars, deployVars, scmVars, deleteVars>>

\* lines 417-421: dispose() disposes the two listeners
Dispose ==
    /\ ~provider.disposed
    /\ provider' = [provider EXCEPT !.disposed = TRUE]
    /\ UNCHANGED <<account, picker, treeVars, deployVars, scmVars, deleteVars>>

\* lines 464-476: getChildren() of the root
GetRootChildren ==
    /\ LET r == getRootNodes(account.status, account.filters,
                             provider.subscriptionNodes, provider.customRootNodes)
       IN  provider' = [provider EXCEPT
                           !.subscriptionNodes = r.subscriptionNodes,
                           !.fired = FALSE,
                           !.enumeration =
                               [done |-> TRUE, threw |-> r.threw,
                                hadLoaded |->
                                    \E j \in DOMAIN provider.subscriptionNodes,
                                       i \in DOMAIN account.filters :
                                        /\ provider.subscriptionNodes[j].loaded
                                        /\ provider.subscriptionNodes[j].id =
                                               account.filters[i].id,
                                result |-> IF r.threw
                                           THEN <<errorNode(
                                                    callWithTelemetryAndErrorHandling(
                                                        TRUE, "ArgumentError"))>>
                                           ELSE r.nodes]]
    /\ UNCHANGED <<account, picker, treeVars, deployVars, scmVars, deleteVars>>

\* the children of the i-th subscription node are loaded: its getCachedChildren
ExpandSubscription(i) ==
    /\ i \in DOMAIN provider.subscriptionNodes
    /\ ~provider.subscriptionNodes[i].loaded
    /\ provider' = [provider EXCEPT !.subscriptionNodes[i].loaded = TRUE]
    /\ UNCHANGED <<account, picker, treeVars, deployVars, scmVars, deleteVars>>

WorkflowsIdle ==
    /\ dep = NoDeploy
    /\ files = {}
    /\ siteConfig = "None"
    /\ scm = NoEdit
    /\ del = NoDelete
    /\ ProviderIdle

(***************************************************************************)
(* The specification of the parent node's cache, one caller at a time      *)
(* (spec section 5: a single caller per node).  The descriptors differ in  *)
(* compareChildren and createChild; picking has a specification of its own.*)
(***************************************************************************)
Descriptors ==
    [custom : BOOLEAN, canCreate : BOOLEAN, childTypeLabel : BOOLEAN, canPick : BOOLEAN]

TreeInit(n, ds) ==
    /\ cachedChildren = NotLoaded
    /\ creatingNodes = <<>>
    /\ hasMore = FALSE
    /\ descriptor \in ds
    /\ limit = n
    /\ tasks = [t \in TaskIds |-> IdleTask]
    /\ last = NoCall

Init ==
    /\ TreeInit(1, {d \in Descriptors : ~d.canPick /\ ~d.childTypeLabel})
    /\ WorkflowsIdle

Next ==
    \/ \E t \in TaskIds : GetCachedChildren(t)
    \/ \E t \in TaskIds : LoadMoreChildren(t)
    \/ ClearCache
    \/ \E clearCache \in BOOLEAN, refreshLabel \in RefreshLabels :
          Refresh(clearCache, refreshLabel)
    \/ \E t \in TaskIds, page \in SeqsUpTo(Items, MaxPage), more \in BOOLEAN :
          FetchReturns(t, page, more)
    \/ \E t \in TaskIds : FetchThrows(t)
    \/ \E item \in Items : AddNodeToCache(item)
    \/ \E index \in -1..(Len(cachedChildren.nodes) - 1) : RemoveNodeFromCache(index)
    \/ \E t \in TaskIds : CreateChild(t)
    \/ \E t \in TaskIds : showCreatingNode(t)
    \/ \E t \in TaskIds, item \in Items : CreateChildReturns(t, item)
    \/ \E t \in TaskIds : CreateChildThrows(t)

Spec == Init /\ [][Next]_vars

\* the call that ended last was a load (loadMoreChildren, or the first load of
\* getCachedChildren) that got its page
LoadEnded ==
    /\ last.op \in {"loadMoreChildren", "getCachedChildren"}
    /\ last.outcome = "ok"
    /\ last.fetches # <<>>

\* the page that load got, and the cache it found
LastFetch == last.fetches[Len(last.fetches)]

\* C1: after a loadMoreChildren the cache is in the order of the active
\* comparator and holds exactly what it held before plus the new page.
LoadMoreKeepsSortedUnion ==
    LoadEnded =>
        /\ cachedChildren.defined
        /\ IsSortedBy(cachedChildren.nodes, descriptor.custom)
        /\ SameBag(ItemsOf(cachedChildren.nodes), LastFetch.pre \o LastFetch.page)

\* C1, its case: a second page whose item sorts before a cached child was merged
\* in label order (cache [2,3], page [1], cache [1,2,3] afterwards)
LoadMoreMergedSecondPage ==
    /\ LoadEnded
    /\ last.op = "loadMoreChildren"
    /\ ~descriptor.custom
    /\ [i \in DOMAIN LastFetch.pre |-> LastFetch.pre[i].label] = <<2, 3>>
    /\ [i \in DOMAIN LastFetch.page |-> LastFetch.page[i].label] = <<1>>
    /\ [i \in DOMAIN cachedChildren.nodes |-> cachedChildren.nodes[i].label] = <<1, 2, 3>>

\* C2: the cache holds no item twice after a load, even when the page repeats
\* an item of an earlier page (the cache before and the page had no duplicate).
LoadMoreAddsNoDuplicate ==
    (LoadEnded /\ NoDuplicates(LastFetch.pre) /\ NoDuplicates(LastFetch.page)) =>
        NoDuplicates(ItemsOf(cachedChildren.nodes))

\* C3: a getCachedChildren that follows clearCache fetches exactly once, with
\* the clearCache argument true, from an empty cache, and returns the children
\* of that page and no others.
ClearThenGetFetchesOnce ==
    (last.op = "getCachedChildren" /\ last.afterClear /\ last.outcome = "ok") =>
        /\ Len(last.fetches) = 1
        /\ last.fetches[1].clear
        /\ last.fetches[1].pre = <<>>
        /\ SameBag(ItemsOf(last.ret), last.fetches[1].page)
        /\ last.ret = cachedChildren.nodes

\* C3, its case: clearCache dropped two children and the getCachedChildren after
\* it returned the one child of the fresh page
ClearDroppedThenGetReturnedPage ==
    /\ last.op = "getCachedChildren"
    /\ last.afterClear
    /\ last.outcome = "ok"
    /\ last.dropped = 2
    /\ Len(last.ret) = 1

\* C4: a loaded cache is in the order of the parent's comparison rule (the
\* descriptor's compareChildren if it has one, label order otherwise), whatever
\* operations led to it.
CacheSortedByComparisonRule ==
    cachedChildren.defined => IsSortedBy(cachedChildren.nodes, descriptor.custom)

\* C5: when createChild has ended, by return or by throw, none of the
\* placeholders it installed is left in creatingNodes.
CreateChildLeavesNoPlaceholder ==
    last.op = "createChild" => last.leaked = 0

\* the call that ended last was a createChild that returned a node
CreateChildReturned == last.op = "createChild" /\ last.outcome = "ok"

\* the node the last call returned is an object of the cache
ReturnedNodeCached ==
    /\ cachedChildren.defined
    /\ \E i \in DOMAIN cachedChildren.nodes :
          cachedChildren.nodes[i] = last.ret[1] /\ last.ret[1].mark = 1

FiredForParentOnly == \A i \in DOMAIN last.fired : last.fired[i] = "parent"

\* C6 as amended: when createChild succeeds on a parent whose children were
\* loaded, the node it returns is in the cache afterwards; and every
\* notification of a successful createChild is fired for the parent.
CreatedNodeCachedWhenLoaded ==
    CreateChildReturned =>
        /\ ~last.startUndef => ReturnedNodeCached
        /\ FiredForParentOnly

\* C6, its case: a createChild with a progress callback returned on a loaded
\* parent that already had a child
CreatedIntoLoadedCache ==
    /\ CreateChildReturned
    /\ ~last.startUndef
    /\ last.nprog > 0
    /\ Len(cachedChildren.nodes) > 1

\* C6 as stated: when createChild succeeds the node it returns is in the cache.
CreatedNodeCached ==
    CreateChildReturned => (ReturnedNodeCached /\ FiredForParentOnly)

(***************************************************************************)
(* The specification of picking a child of the parent node, one caller at  *)
(* a time.  The descriptors differ in createChild, childTypeLabel and      *)
(* pickTreeItem; the children are in label order.                          *)
(***************************************************************************)
PickInit ==
    /\ TreeInit(1, {d \in Descriptors : ~d.custom})
    /\ WorkflowsIdle

PickNext ==
    \/ \E t \in TaskIds, expected \in ExpectedContextValues,
          pickTreeItem \in PickTreeItems, ancestors \in SUBSET ContextValues :
          PickChildNode(t, expected, pickTreeItem, ancestors)
    \/ \E t \in TaskIds, i \in 1..(MaxCache + 2) : UserPicks(t, i)
    \/ \E t \in TaskIds : UserCancels(t)
    \/ \E t \in TaskIds, page \in SeqsUpTo(Items, MaxPage), more \in BOOLEAN :
          FetchReturns(t, page, more)
    \/ \E t \in TaskIds : FetchThrows(t)
    \/ \E t \in TaskIds, item \in Items : CreateChildReturns(t, item)
    \/ \E t \in TaskIds : CreateChildThrows(t)

PickSpec == PickInit /\ [][PickNext]_vars

\* the call that ended last was a pickChildNode
PickEnded == last.op = "pickChildNode"

\* the errors pickChildNode ends with: the user's cancellation, or what the
\* descriptor threw in loadMoreChildren or createChild
PickErrors == {"UserCancelledError", "fetchError", "createError"}

PlainDescriptor ==
    [custom |-> FALSE, canCreate |-> FALSE, childTypeLabel |-> FALSE, canPick |-> FALSE]

DeployInit ==
    /\ TreeInit(1, {PlainDescriptor})
    /\ dep = NoDeploy
    /\ files = {}
    /\ siteConfig \in ScmTypeNames
    /\ scm = NoEdit
    /\ del = NoDelete
    /\ ProviderIdle

DeployNext ==
    \/ \E fsPath \in FsPaths, confirmDeployment \in BOOLEAN :
          DeployZip(fsPath, confirmDeployment)
    \/ \E fsPath \in FsPaths, confirmDeployment \in BOOLEAN :
          Deploy(fsPath, confirmDeployment)
    \/ DeployConfigReturns
    \/ DeployCallThrows
    \/ \E uncommitted \in BOOLEAN : LocalGitCallReturns(uncommitted)
    \/ \E message \in {"spawn git ENOENT", "error: failed to push", "other"} :
          LocalGitThrows(message)
    \/ InstallPromptAnswered
    \/ \E input \in PushRejectInputs : PushRejectAnswered(input)
    \/ \E yes \in BOOLEAN : WarningAnswered(yes)
    \/ GetKuduClientReturns
    \/ GetKuduClientThrows
    \/ \E fsPath \in FsPaths, settings \in AppSettings :
          DeployRunFromZip(fsPath, settings)
    \/ ZipDirectoryReturns
    \/ ZipDirectoryThrows
    \/ ZipPushDeployReturns
    \/ \E withBody \in BOOLEAN : ZipPushDeployThrows(withBody)
    \/ \E deployment \in DeployResults : GetResultReturns(deployment)
    \/ \E withBody \in BOOLEAN : GetResultThrows(withBody)
    \/ \E blobUrl \in BlobUrls : RunFromZipStepReturns(blobUrl)
    \/ \E withBody \in BOOLEAN : RunFromZipStepThrows(withBody)
    \/ DeleteFileReturns

DeploySpec == DeployInit /\ [][DeployNext]_vars

\* the deploy call has ended
DeployEnded == dep.pc = "done"

\* how often the workflow did e
Times(e) == Count(dep.events, e)

\* the events without the log lines other than the completion line
Steps ==
    SelectSeq(dep.events,
              LAMBDA e : e \notin {Called("show"), Logged("zipCreate"),
                                   Logged("deployStart"), Logged("progress")})

\* k lookups that found the deployment incomplete
IncompleteLookups(k) ==
    [i \in 1..(2 * k) |-> IF i % 2 = 1 THEN Called("getResult") ELSE Saw("incomplete")]

\* C7: when a deploy call has ended, by return or by throw, the zip file it
\* made of a directory does not exist any more.
CreatedZipDeleted ==
    DeployEnded => TmpZip \notin files

\* C7, its case: a run-from-zip deploy of a directory made the zip, failed at
\* the blob upload with an error that has a response body, and has ended
UploadFailedAfterZip ==
    /\ DeployEnded
    /\ dep.workflow = "deployRunFromZip"
    /\ dep.zipFilePath = TmpZip
    /\ dep.outcome = "throw"
    /\ dep.error = "Error(response.body)"
    /\ RunFromZipSteps[dep.step] = "createBlobFromZip"

\* C8: a zip deploy of a directory that returns has made one zip, started one
\* push, looked up the status until it saw a complete result, deleted the zip
\* and logged the completion, in this order; a zip deploy that throws makes at
\* most one zip, push and deletion and logs no completion.
ZipDeployStepsInOrder ==
    (DeployEnded /\ dep.workflow = "deployZip" /\ dep.fsPath = "directory") =>
        /\ dep.outcome = "ok" =>
              Steps = <<Called("zipDirectory"), Called("zipPushDeploy")>>
                         \o IncompleteLookups(dep.polls)
                         \o <<Called("getResult"), Saw("complete"),
                              Called("deleteFile"), Logged("deployComplete")>>
        /\ dep.outcome = "throw" => Times(Logged("deployComplete")) = 0
        /\ \A e \in {"zipDirectory", "zipPushDeploy", "deleteFile"} :
              Times(Called(e)) <= 1

\* C8, its case: a zip deploy of a directory returned after two lookups found
\* the deployment incomplete
ZipDeployReturnedAfterPolls ==
    /\ DeployEnded
    /\ dep.workflow = "deployZip"
    /\ dep.fsPath = "directory"
    /\ dep.outcome = "ok"
    /\ dep.polls = 2

(***************************************************************************)
(* The specification of the SCM edit workflow: one editScmType call after  *)
(* the other on a site that starts with any source type.                   *)
(***************************************************************************)
ScmInit ==
    /\ TreeInit(1, {PlainDescriptor})
    /\ dep = NoDeploy
    /\ files = {}
    /\ siteConfig \in ScmTypeNames
    /\ scm = NoEdit
    /\ del = NoDelete
    /\ ProviderIdle

ScmNext ==
    \/ \E version \in {"SiteWrapper", "editScmType"}, types \in ScmTypeEnums :
          EditScmType(version, types)
    \/ GetSiteConfigReturns
    \/ GetSiteConfigThrows
    \/ \E i \in 1..MaxScmTypes : ScmUserSelects(i)
    \/ ScmUserDismisses
    \/ UpdateConfigurationReturns
    \/ UpdateConfigurationThrows
    \/ ConnectToGitHubReturns
    \/ ConnectToGitHubThrows

ScmSpec == ScmInit /\ [][ScmNext]_vars

\* the user selected the source type the site reported
SelectedCurrent == scm.quickPick # NoPick /\ scm.quickPick.label = scm.config

\* C10: whatever source type the site reports, once the user has selected that
\* type the edit ends with UserCancelledError, has issued no call but the
\* reading of the configuration, and the site's source type is what it was.
SelectingCurrentCancels ==
    SelectedCurrent =>
        /\ scm.pc = "done"
        /\ scm.outcome = "throw"
        /\ scm.error = "UserCancelledError"
        /\ scm.calls = <<"getSiteConfig">>
        /\ siteConfig = scm.config

\* C10, its case: the site reported LocalGit, the function editScmType listed
\* it after another type, and the user selected it
SelectedCurrentLocalGit ==
    /\ SelectedCurrent
    /\ scm.version = "editScmType"
    /\ scm.config = "LocalGit"
    /\ scm.types[1] # "LocalGit"
    /\ scm.pc = "done"

\* the user selected GitHub in the list of the function editScmType
SelectedGitHub ==
    /\ scm.version = "editScmType"
    /\ scm.quickPick # NoPick
    /\ scm.quickPick.label = "GitHub"

ConfigurationErrorWithoutCall ==
    /\ scm.pc = "done"
    /\ scm.outcome = "throw"
    /\ scm.error = "configurationError"
    /\ scm.calls = <<"getSiteConfig">>
    /\ siteConfig = scm.config

\* C11 as amended: selecting GitHub while the current type is neither None nor
\* GitHub fails with the configuration error, with no update call and no
\* GitHub connection; while the current type is GitHub itself the selection
\* is a cancel; and the GitHub connection is issued only when the current
\* type is None.
GitHubNeedsNone ==
    /\ (SelectedGitHub /\ scm.config \notin {"None", "GitHub"}) =>
          ConfigurationErrorWithoutCall
    /\ (SelectedGitHub /\ scm.config = "GitHub") =>
          (scm.error = "UserCancelledError" /\ scm.calls = <<"getSiteConfig">>)
    /\ "connectToGitHub" \in Range(scm.calls) => scm.config = "None"

\* C11, its case: the site reported LocalGit and the user selected GitHub
SelectedGitHubOnLocalGit ==
    /\ SelectedGitHub
    /\ scm.config = "LocalGit"
    /\ scm.pc = "done"

\* C11 as stated: selecting GitHub while the current type is not None fails
\* with the configuration error and issues no call.
GitHubOnOtherTypeIsConfigurationError ==
    (SelectedGitHub /\ scm.config # "None") => ConfigurationErrorWithoutCall

(***************************************************************************)
(* The specification of the delete workflow.                               *)
(***************************************************************************)
\* the most sites a plan reports
MaxSites == 3

DeleteInit ==
    /\ TreeInit(1, {PlainDescriptor})
    /\ WorkflowsIdle

DeleteNext ==
    \/ \E version \in {"SiteWrapper", "deleteSite"}, isSlot \in BOOLEAN,
          sites \in 0..MaxSites :
          DeleteSite(version, isSlot, sites)
    \/ \E answer \in ConfirmItems("SiteWrapper") \cup {"undefined"} :
          ConfirmationAnswered(answer)
    \/ \E answer \in ConfirmItems("deleteSite") : UiConfirmationReturns(answer)
    \/ UiThrows
    \/ GetAppServicePlanReturns
    \/ GetAppServicePlanThrows
    \/ \E answer \in PlanItems \cup {"undefined"} : PlanPromptAnswered(answer)
    \/ DeleteReturns
    \/ DeleteThrows

DeleteSpec == DeleteInit /\ [][DeleteNext]_vars

\* where an event stands in the call's events, 0 when it is not there
Position(name) ==
    IF \E i \in 1..Len(del.events) : del.events[i] = name
    THEN CHOOSE i \in 1..Len(del.events) : del.events[i] = name
    ELSE 0

DeleteCallIssued == Position("deleteMethod") > 0 \/ Position("deleteSlot") > 0

\* C12: for a site that is no slot and whose plan reports one site, the plan
\* prompt is shown as soon as the plan is known, after the confirmation was
\* answered and before the delete call is issued; no delete call is issued
\* without it.
LastSitePlanPromptShown ==
    (~del.isSlot /\ del.plan.defined /\ del.plan.numberOfSites = 1) =>
        /\ Position("planPrompt") > Position("getAppServicePlan")
        /\ Position("getAppServicePlan") > Position("confirmation")
        /\ Position("confirmation") = 1
        /\ Len(del.answers) >= 1
        /\ DeleteCallIssued =>
              /\ Position("deleteMethod") > Position("planPrompt")
              /\ Len(del.answers) = 2

\* C12, its case: the last site of a plan was deleted after both prompts
LastSiteDeleted ==
    /\ ~del.isSlot
    /\ del.plan = AppServicePlan(1)
    /\ del.pc = "done"
    /\ del.outcome = "return"

\* C13: deleting a slot looks no plan up and shows no plan prompt, at every
\* point of the call and however it ends.
SlotDeletedWithoutPlanLookup ==
    del.isSlot =>
        /\ Position("getAppServicePlan") = 0
        /\ Position("planPrompt") = 0
        /\ ~del.plan.defined
        /\ ~del.deletePlan
        /\ Len(del.answers) <= 1

\* C13, its case: a slot was deleted
SlotDeleted ==
    /\ del.isSlot
    /\ del.pc = "done"
    /\ del.outcome = "return"
    /\ DeleteCallIssued

\* the answers that confirm the deletion, and those that are a dismissed prompt
ConfirmAnswers == {"yes", "deleteResponse"}

Dismissals == {"undefined", "cancelled"}

\* the confirmation was answered, and not by its confirming item
NotConfirmed == Len(del.answers) >= 1 /\ del.answers[1] \notin ConfirmAnswers

\* the plan prompt was dismissed
PlanPromptDismissed == Len(del.answers) = 2 /\ del.answers[2] \in Dismissals

Cancelled == del.pc = "done" /\ del.outcome = "throw" /\ del.error = "UserCancelledError"

DeleteEmptyPlanOnlyOnYes ==
    /\ DeleteCallIssued =>
          /\ del.deleteEmptyServerFarm = "true" <=>
                 /\ ~del.isSlot
                 /\ del.plan.defined /\ del.plan.numberOfSites < 2
                 /\ Len(del.answers) = 2 /\ del.answers[2] = "yes"
          /\ Position("deleteMethod") > 0 => del.deleteEmptyServerFarm \in {"true", "false"}
          /\ Position("deleteSlot") > 0 => del.deleteEmptyServerFarm = "none"
    /\ ~DeleteCallIssued => del.deleteEmptyServerFarm = "none"

\* C28, its case: the last site of a plan was deleted together with its plan
DeletedWithEmptyPlan ==
    /\ del.pc = "done" /\ del.outcome = "return"
    /\ del.plan = AppServicePlan(1)
    /\ del.answers[2] = "yes"
    /\ del.deleteEmptyServerFarm = "true"

(***************************************************************************)
(* The specification of the provider's root: the account changes, the host *)
(* enumerates the root and expands subscription nodes.                     *)
(***************************************************************************)
\* the most filters the account has
MaxFilters == 2

\* the most root tree items the provider is constructed with
MaxRoots == 1

WorkflowsNotStarted ==
    /\ dep = NoDeploy
    /\ files = {}
    /\ siteConfig = "None"
    /\ scm = NoEdit
    /\ del = NoDelete

ProviderInit ==
    /\ TreeInit(1, {PlainDescriptor})
    /\ WorkflowsNotStarted
    /\ account \in [status : AzureLoginStatus,
                    filters : SeqsUpTo(AzureSubscriptions, MaxFilters)]
    /\ provider \in [subscriptionNodes : {<<>>},
                     customRootNodes : {[i \in 1..k |-> RootNode(i)] : k \in 0..MaxRoots},
                     fired : {FALSE}, disposed : {FALSE},
                     enumeration : {NotEnumerated}]
    /\ picker = NoPicker

ProviderNext ==
    \/ \E status \in AzureLoginStatus : StatusChanged(status)
    \/ \E filters \in SeqsUpTo(AzureSubscriptions, MaxFilters) : FiltersChanged(filters)
    \/ GetRootChildren
    \/ \E i \in 1..MaxFilters : ExpandSubscription(i)

ProviderSpec == ProviderInit /\ [][ProviderNext]_vars

\* the root was enumerated, and the account has not changed since
Enumerated == provider.enumeration.done

\* the nodes the enumeration returned
RootResult == provider.enumeration.result

CommandNode(n, label, commandId) ==
    /\ n.label = label
    /\ n.commandId = commandId
    /\ n.contextValue = "azureCommandNode"

\* the root nodes before the custom root nodes, when there are `n` of them
CommandNodesThenRoots(n) ==
    /\ Len(RootResult) = n + Len(provider.customRootNodes)
    /\ SubSeq(RootResult, n + 1, Len(RootResult)) = provider.customRootNodes

\* C14 as amended: the account state gives the command nodes of the root, which
\* the custom root nodes follow: one loading node with the sign-in command
\* while Initializing or LoggingIn, the sign-in and the create-account node
\* while LoggedOut, one edit-filters node while LoggedIn without a filter.
AccountStateGivesCommandNodes ==
    Enumerated =>
        /\ account.status \in {"Initializing", "LoggingIn"} =>
              /\ CommandNodesThenRoots(1)
              /\ CommandNode(RootResult[1], "Loading...", "azure-account.login")
        /\ account.status = "LoggedOut" =>
              /\ CommandNodesThenRoots(2)
              /\ CommandNode(RootResult[1], "Sign in to Azure...", "azure-account.login")
              /\ CommandNode(RootResult[2], "Create a Free Azure Account...",
                             "azure-account.createAccount")
        /\ (account.status = "LoggedIn" /\ account.filters = <<>>) =>
              /\ CommandNodesThenRoots(1)
              /\ CommandNode(RootResult[1], "No subscriptions found. Edit filters...",
                             "azure-account.selectSubscriptions")

\* C14, its case: a provider with a custom root node enumerated while logged out
LoggedOutEnumerated ==
    /\ Enumerated
    /\ account.status = "LoggedOut"
    /\ provider.customRootNodes # <<>>

\* C14 as stated: these account states give the command nodes and nothing
\* else: one node, two nodes while LoggedOut.
AccountStateGivesCommandNodesOnly ==
    (Enumerated /\ ~(account.status = "LoggedIn" /\ account.filters # <<>>)) =>
        Len(RootResult) = IF account.status = "LoggedOut" THEN 2 ELSE 1

\* every filter of the account has a subscription id and a display name
FiltersComplete ==
    \A i \in DOMAIN account.filters :
        account.filters[i].hasId /\ account.filters[i].hasName

\* the result is one not-loaded subscription node per filter, in filter order,
\* and the custom root nodes after them
SubscriptionNodesThenRoots ==
    /\ Len(RootResult) = Len(account.filters) + Len(provider.customRootNodes)
    /\ \A i \in DOMAIN account.filters :
          RootResult[i] = SubscriptionNode(account.filters[i])
    /\ SubSeq(RootResult, Len(account.filters) + 1, Len(RootResult)) =
          provider.customRootNodes

\* the subscription nodes the provider keeps are those of the result
RemembersResult ==
    /\ Len(provider.subscriptionNodes) = Len(account.filters)
    /\ \A i \in DOMAIN account.filters :
          [provider.subscriptionNodes[i] EXCEPT !.loaded = FALSE] = RootResult[i]

\* C15 as amended: while logged in with filters that all have id and display
\* name, the enumeration gives one new, not-loaded subscription node per
\* filter in filter order, then the custom root nodes, and the provider keeps
\* those subscription nodes; after an enumeration in another account state,
\* or with a filter that lacks id or display name, it keeps none.
EnumerationGivesSubscriptionNodes ==
    Enumerated =>
        IF account.status = "LoggedIn" /\ account.filters # <<>> /\ FiltersComplete
        THEN SubscriptionNodesThenRoots /\ RemembersResult
        ELSE provider.subscriptionNodes = <<>>

\* C15, its case: two filters enumerated again after the node of one was loaded
EnumeratedAgainAfterExpand ==
    /\ Enumerated
    /\ account.status = "LoggedIn"
    /\ Len(account.filters) = MaxFilters
    /\ provider.enumeration.hadLoaded
    /\ provider.customRootNodes # <<>>
    /\ ~provider.enumeration.threw

\* C15 as stated: while logged in with at least one filter, every enumeration
\* gives one subscription node per filter and the provider keeps them.
EveryFilterGivesSubscriptionNode ==
    (Enumerated /\ account.status = "LoggedIn" /\ account.filters # <<>>) =>
        SubscriptionNodesThenRoots /\ RemembersResult

(***************************************************************************)
(* The specification of getChildren: the host enumerates the root and the  *)
(* parent node, whose cache a refresh clears; the account does not change. *)
(***************************************************************************)
ChildrenNext ==
    \/ GetRootChildren
    \/ \E t \in TaskIds : GetChildren(t)
    \/ ClearCache
    \/ \E t \in TaskIds, page \in SeqsUpTo(Items, MaxPage), more \in BOOLEAN :
          FetchReturns(t, page, more)
    \/ \E t \in TaskIds : FetchThrows(t)

ChildrenSpec == ProviderInit /\ [][ChildrenNext]_vars

IsErrorLeaf(nodes, message) == nodes = <<errorNode(message)>>

HasErrorLeaf(nodes) ==
    \E i \in DOMAIN nodes : \E message \in {"fetchError", "TypeError", "ArgumentError"} :
        nodes[i] = errorNode(message)

\* C16: getChildren does not throw: a failing page fetch below the parent node
\* and a filter without id or display name below the root each give the one
\* error leaf with the message of the failure, and no result without a
\* failure holds an error leaf.
GetChildrenNeverThrows ==
    /\ last.op = "getChildren" =>
          /\ last.outcome = "ok"
          /\ IF last.err # ""
             THEN IsErrorLeaf(last.ret, last.err)
             ELSE ~HasErrorLeaf(last.ret)
    /\ Enumerated =>
          /\ provider.enumeration.threw =
                (account.status = "LoggedIn" /\ ~FiltersComplete)
          /\ IF provider.enumeration.threw
             THEN IsErrorLeaf(RootResult, "ArgumentError")
             ELSE ~HasErrorLeaf(RootResult)

\* C16, its case: the page fetch of the parent node failed after the root was
\* enumerated with a filter that lacks its id or its display name
BothEnumerationsFailed ==
    /\ last.op = "getChildren"
    /\ last.err = "fetchError"
    /\ Enumerated
    /\ provider.enumeration.threw

(***************************************************************************)
(* The specification of showNodePicker: the provider has enumerated its    *)
(* root in some account state, and the status changes while it picks.      *)
(***************************************************************************)
NodePickerInit ==
    /\ TreeInit(1, {PlainDescriptor})
    /\ WorkflowsNotStarted
    /\ account \in [status : AzureLoginStatus, filters : {<<>>}]
    /\ provider \in
          [subscriptionNodes :
               {newSubscriptionNodes(<<>>, f) :
                    f \in SeqsUpTo({a \in AzureSubscriptions : a.hasId /\ a.hasName},
                                   MaxFilters)},
           customRootNodes : {[i \in 1..k |-> RootNode(i)] : k \in 0..MaxRoots},
           fired : {FALSE}, disposed : {FALSE},
                     enumeration : {NotEnumerated}]
    /\ picker = NoPicker

NodePickerNext ==
    \/ \E status \in AzureLoginStatus : StatusChanged(status)
    \/ \E expected \in ExpectedContextValues \cup {<<SubscriptionTag>>},
          ancestors \in SUBSET {"root"}, started \in BOOLEAN,
          startingNode \in PickerNodes :
          ShowNodePicker(expected, ancestors, started, startingNode)
    \/ \E i \in 1..(MaxFilters + MaxRoots) : RootPicked(i)
    \/ RootPickCancelled
    \/ CommandReturns
    \/ \E child \in PickerNodes : PickChildNodeReturns(child)
    \/ \E error \in {"UserCancelledError", "otherError"} : PickerAwaitThrows(error)

NodePickerSpec == NodePickerInit /\ [][NodePickerNext]_vars

IsExpected(node) == node.contextValue \in Range(picker.expected)

\* C17: showNodePicker returns only a node whose context value is expected,
\* and the starting node at once, with no picker shown, when that one is; it
\* waits for pickChildNode only at a parent node that is not expected, and it
\* throws the "no matching resources" error exactly at a node that is neither
\* expected nor a parent.
PickerReturnsExpectedNode ==
    /\ (picker.pc = "done" /\ picker.outcome = "return") => IsExpected(picker.node)
    /\ (picker.pc # "idle" /\ picker.started /\ picker.calls = 0) =>
          /\ ~picker.shown
          /\ picker.pc = "done"
          /\ picker.outcome = IF IsExpected(picker.node) THEN "return" ELSE "throw"
    /\ picker.pc = "child" => (picker.node.parent /\ ~IsExpected(picker.node))
    /\ picker.calls > 0 => picker.shown
    /\ (picker.pc = "done" /\ picker.error = "noResourcesError") =>
          (~picker.node.parent /\ ~IsExpected(picker.node))
    /\ (picker.pc = "done" /\ ~picker.node.parent /\ ~IsExpected(picker.node)) =>
          picker.error \in {"noResourcesError"}

\* C17, its case: an expected node two levels below a picked root was returned
\* after pickChildNode had given a node itself once
PickerDescendedToExpected ==
    /\ picker.pc = "done"
    /\ picker.outcome = "return"
    /\ ~picker.started
    /\ picker.node.depth = MaxDepth
    /\ picker.calls = MaxCalls

\* the deploy call went through deploy(), which has read the configuration
ViaDeploy == dep.scmType # ""

GitEvents ==
    {Called(e) : e \in {"getWebAppPublishCredential", "status", "push", "forcePush",
                        "showInstallPrompt", "showErrorMessage", "showUncommitted"}}
        \cup {Logged("localGitDeploy")}

ZipEvents ==
    {Called(e) : e \in {"show", "zipDirectory", "zipPushDeploy", "deleteFile"}}
        \cup {Logged("zipCreate"), Logged("deployStart")}

\* C19: deploy reads the configuration of the site and goes by its source
\* type: with LocalGit it runs the git push path and neither makes a zip nor
\* starts a zip push; with any other type it runs the zip path and runs
\* neither git nor a push; before the configuration is there it does nothing.
DeployBranchesOnScmType ==
    /\ dep.workflow = "deploy" =>
          (dep.events = <<>> /\ (dep.pc = "getSiteConfig" \/ dep.outcome = "throw"))
    /\ ViaDeploy =>
          /\ dep.scmType = siteConfig
          /\ dep.workflow = IF dep.scmType = "LocalGit"
                            THEN "localGitDeploy" ELSE "deployZip"
          /\ Range(dep.events) \cap
                (IF dep.scmType = "LocalGit" THEN ZipEvents ELSE GitEvents) = {}
          /\ TmpZip \in files => dep.scmType # "LocalGit"
    /\ (ViaDeploy /\ dep.outcome = "ok") =>
          IF dep.scmType = "LocalGit"
          THEN Times(Called("status")) = 1
          ELSE Times(Called("zipPushDeploy")) = 1

\* C19, its case: deploy of a LocalGit site pushed and returned
LocalGitDeployPushed ==
    /\ ViaDeploy
    /\ dep.scmType = "LocalGit"
    /\ dep.outcome = "ok"
    /\ Times(Called("push")) = 1
    /\ Times(Logged("deployComplete")) = 1

\* the status lookups the poll loop issued, and the results it got
Lookups == Times(Called("getResult"))

Results == Times(Saw("complete")) + Times(Saw("incomplete"))

\* a lookup was issued again right after the i-th event, or after its log line
LookedUpAgainAfter(i) ==
    /\ i < Len(dep.events)
    /\ \/ dep.events[i + 1] = Called("getResult")
       \/ /\ dep.events[i + 1] = Logged("progress")
          /\ i + 1 < Len(dep.events)
          /\ dep.events[i + 2] = Called("getResult")

\* C18: the poll loop looks the status up again after every result that is
\* not complete, and ends after the one complete result: the completion is
\* logged only after it.  A lookup that fails is the last one: the error
\* leaves the loop and the workflow ends with it, without a completion line.
PollLoopEndsOnCompleteOrError ==
    /\ \A i \in DOMAIN dep.events :
          /\ dep.events[i] = Saw("incomplete") => LookedUpAgainAfter(i)
          /\ dep.events[i] = Saw("complete") =>
                \A j \in DOMAIN dep.events :
                    j > i => dep.events[j] \notin {Called("getResult"), Saw("complete"),
                                                  Saw("incomplete")}
    /\ Times(Logged("deployComplete")) > 0 =>
          (Times(Saw("complete")) = 1 /\ Lookups = Results)
    /\ Lookups - Results = IF dep.pc = "getResult" THEN 1
                           ELSE IF Times(Saw("complete")) = 1 \/ Lookups = 0 THEN 0 ELSE 1
    /\ (dep.pc # "getResult" /\ Lookups > Results) =>
          /\ dep.error \in {"error", "Error(response.body)"}
          /\ dep.pc \in {"deleteFile", "done"}
          /\ dep.pc = "done" => dep.outcome = "throw"

\* C18, its case: the lookup failed after the most results that were not
\* complete, and the deploy call has ended
LookupFailedAfterPolls ==
    /\ DeployEnded
    /\ dep.polls = MaxPolls
    /\ Lookups = MaxPolls + 1
    /\ Results = MaxPolls
    /\ dep.outcome = "throw"

(***************************************************************************)
(* The specification of pickChildNode with a pickTreeItem: the children of *)
(* a loaded parent carry ids, and so do the items pickTreeItem answers.    *)
(***************************************************************************)
\* tree items with an id, 0 for one whose id is undefined
ItemsWithId ==
    {[label |-> l, contextValue |-> ContextOf(l), id |-> i] :
        l \in 1..MaxId, i \in 0..MaxId}

NodeWithId(item) ==
    [label |-> item.label, contextValue |-> item.contextValue, id |-> item.id,
     mark |-> 0]

PickTreeInit ==
    /\ cachedChildren \in
          {Loaded(nodes) : nodes \in
              {[i \in DOMAIN items |-> NodeWithId(items[i])] :
                  items \in {s \in SeqsUpTo(ItemsWithId, MaxPage) :
                               \A i, j \in DOMAIN s : i < j => s[i].label <= s[j].label}}}
    /\ creatingNodes = <<>>
    /\ hasMore = FALSE
    /\ descriptor = [PlainDescriptor EXCEPT !.canPick = TRUE]
    /\ limit = 1
    /\ tasks = [t \in TaskIds |-> IdleTask]
    /\ last = NoCall
    /\ WorkflowsIdle

PickTreeNext ==
    \/ \E t \in TaskIds, expected \in ExpectedContextValues,
          pickTreeItem \in [ContextValues -> ItemsWithId \cup {NoItem}] :
          PickChildNode(t, expected, pickTreeItem, {})
    \/ \E t \in TaskIds, i \in 1..MaxPage : UserPicks(t, i)
    \/ \E t \in TaskIds : UserCancels(t)

PickTreeSpec == PickTreeInit /\ [][PickTreeNext]_vars

\* the cached children that have the id of the picked item, if it has one,
\* or its label
ChildrenLike(pickedItem) ==
    {i \in DOMAIN cachedChildren.nodes :
        \/ pickedItem # NoItem /\ pickedItem.id # 0
              /\ cachedChildren.nodes[i].id = pickedItem.id
        \/ cachedChildren.nodes[i].label = pickedItem.label}

\* the places in `expected` whose context value makes pickTreeItem answer an
\* item that a cached child is like
Yielding(expected, pickTreeItem) ==
    {k \in DOMAIN expected : ChildrenLike(pickTreeItem[expected[k]]) # {}}

\* C20: when pickTreeItem answers, for some expected context value, an item
\* that a cached child is like (by the item's id, or by its label), then
\* pickChildNode returns without a picker the first such child in cache order
\* for the first such context value; the picker is shown only when there is
\* no such context value.
PickTreeItemFindsChild ==
    /\ last.choice = "tree" =>
          LET yielding == Yielding(last.expected, last.pickTreeItem)
          IN  /\ yielding # {}
              /\ last.outcome = "ok"
              /\ last.ret = <<cachedChildren.nodes[
                      Min(ChildrenLike(last.pickTreeItem[last.expected[Min(yielding)]]))]>>
    /\ \A t \in TaskIds :
          tasks[t].pc = "pick" =>
              /\ Yielding(tasks[t].expected, last.pickTreeItem) = {}
              /\ last.choice = "none"

\* C20, its case: the item of the first expected context value was not in the
\* cache, and the child returned has the id but not the label of the item of
\* the second
PickedByIdForSecondTag ==
    /\ last.choice = "tree"
    /\ Len(last.expected) = 2
    /\ last.pickTreeItem[last.expected[1]] # NoItem
    /\ Yielding(last.expected, last.pickTreeItem) = {2}
    /\ last.ret[1].label # last.pickTreeItem[last.expected[2]].label
    /\ last.ret[1].id = last.pickTreeItem[last.expected[2]].id

(***************************************************************************)
(* The selection list of pickChildNode.                                    *)
(***************************************************************************)
\* the calls whose picker is open
Picking == {t \in TaskIds : tasks[t].pc = "pick"}

\* the positions of the entries of one kind in the list of call t
EntriesOf(t, kind) == {i \in DOMAIN tasks[t].picks : tasks[t].picks[i].kind = kind}

\* the children the list of call t offers, in the order of the list
ChildrenListed(t) ==
    LET IsNode(p) == p.kind = "node"
        entries == SelectSeq(tasks[t].picks, IsNode)
    IN  [i \in DOMAIN entries |-> entries[i].node]

\* the cached children that are eligible for call t, in cache order
EligibleChildren(t) ==
    LET Eligible(n) == includeInNodePicker(n, tasks[t].expected, tasks[t].ancestors)
    IN  SelectSeq(cachedChildren.nodes, Eligible)

\* the list of call t has a "create new" entry, the first one, exactly if `create`;
\* and a "load more" entry, the last one, exactly if the descriptor has more pages
ListHasCreateAndMore(t, create) ==
    /\ EntriesOf(t, "create") = (IF create THEN {1} ELSE {})
    /\ EntriesOf(t, "more") = (IF hasMore THEN {Len(tasks[t].picks)} ELSE {})

\* C21 as amended: the selection list consists of the eligible cached children
\* in cache order, with a "create new" entry first if and only if the
\* descriptor has createChild and a childTypeLabel, and a "load more" entry
\* last if and only if the descriptor reports more pages.
SelectionListOfEligibleChildren ==
    \A t \in Picking :
        /\ ChildrenListed(t) = EligibleChildren(t)
        /\ ListHasCreateAndMore(t, descriptor.canCreate /\ descriptor.childTypeLabel)

\* C21, its case: a list with "create new", one eligible child and "load more",
\* of a cache that also holds a child that is not eligible
ListedOneOfTwoChildren ==
    \E t \in Picking :
        /\ [i \in DOMAIN tasks[t].picks |-> tasks[t].picks[i].kind]
              = <<"create", "node", "more">>
        /\ Len(cachedChildren.nodes) = 2
        /\ tasks[t].picks[2].node = cachedChildren.nodes[2]

\* C21 as stated: the "create new" entry is there if and only if the
\* descriptor supports child creation.
SelectionListCreateIffCreateChild ==
    \A t \in Picking :
        /\ ChildrenListed(t) = EligibleChildren(t)
        /\ ListHasCreateAndMore(t, descriptor.canCreate)

(***************************************************************************)
(* The "load more" and "create new" entries of the selection list.         *)
(***************************************************************************)
\* the pickChildNode that ended last returned by the entry `choice`
PickedEntry(choice) == PickEnded /\ last.outcome = "ok" /\ last.choice = choice

\* showNodePicker (lines 507-509) holding the node the last call returned:
\* whether its loop calls pickChildNode of that node again
AsksAgain ==
    LET node == [contextValue |-> last.ret[1].contextValue, parent |-> TRUE, depth |-> 1]
        p == descend([NoPicker EXCEPT !.expected = last.expected, !.node = node])
    IN  p.pc = "child" /\ p.node = node

\* C22: a pickChildNode that ends by "load more" has fetched exactly one page
\* after the list was shown, not clearing the cache, and the cache holds what
\* it held plus that page; it fired one notification, for the parent, and
\* returned the parent itself, which showNodePicker asks again.  One that ends
\* by "create new" returns the node createChild made, which is in the cache.
LoadMoreFetchesOnePageAndReturnsParent ==
    /\ PickedEntry("more") =>
          /\ Len(last.fetches) = (IF last.startUndef THEN 2 ELSE 1)
          /\ ~LastFetch.clear
          /\ SameBag(ItemsOf(cachedChildren.nodes), LastFetch.pre \o LastFetch.page)
          /\ last.fired = <<"parent">>
          /\ last.ret = <<ThisNode>>
          /\ AsksAgain
    /\ PickedEntry("create") =>
          /\ ReturnedNodeCached
          /\ last.fired # <<>> /\ FiredForParentOnly
          /\ Len(last.fetches) = (IF last.startUndef THEN 1 ELSE 0)

\* C22, its case: the list was shown after a first page, "load more" fetched a
\* second page of two children, and the cache holds three
LoadMorePickedAfterFirstPage ==
    /\ PickedEntry("more")
    /\ last.startUndef
    /\ Len(LastFetch.pre) = 1
    /\ Len(LastFetch.page) = 2
    /\ Len(cachedChildren.nodes) = 3

(***************************************************************************)
(* getCachedChildren and the fetches it issues.                            *)
(***************************************************************************)
\* the call that ended last was a getCachedChildren
GetEnded == last.op = "getCachedChildren" /\ last.outcome # "none"

\* a step from one ended getCachedChildren to the next, nothing in between
GetAfterGet ==
    /\ GetEnded /\ last.outcome = "ok"
    /\ last'.op = "getCachedChildren" /\ last'.outcome # "none"

\* the fetches of an ended getCachedChildren: one if it found this._cachedChildren
\* undefined, none otherwise; and what it returns is the cache
FetchesIffUndefined ==
    GetEnded =>
        /\ last.outcome = "throw" => last.startUndef
        /\ last.outcome = "ok" =>
              /\ Len(last.fetches) = (IF last.startUndef THEN 1 ELSE 0)
              /\ last.ret = cachedChildren.nodes

\* a getCachedChildren that follows a successful one returns the same children
\* without a fetch
SecondGetReturnsSame ==
    GetAfterGet => (last'.outcome = "ok" /\ last'.fetches = <<>> /\ last'.ret = last.ret)

\* C23 as amended: getCachedChildren issues one fetch if the cache is undefined
\* (never loaded, or cleared) and none otherwise, also when the loaded cache
\* holds no child; a getCachedChildren repeated with nothing in between issues
\* no further fetch and returns the same children.
GetFetchesOnlyWhenNotLoaded ==
    /\ []FetchesIffUndefined
    /\ [][SecondGetReturnsSame]_vars

\* C23, its case: a getCachedChildren returned two cached children without a fetch
GetReturnedCachedWithoutFetch ==
    /\ GetEnded
    /\ last.outcome = "ok"
    /\ ~last.startUndef
    /\ last.fetches = <<>>
    /\ Len(last.ret) = 2

\* C23 as stated: a fetch is issued if the cache is empty, none otherwise.
GetFetchesWhenEmpty ==
    (GetEnded /\ last.outcome = "ok") =>
        /\ last.fetches # <<>> => last.fetches[1].pre = <<>>
        /\ last.fetches = <<>> => last.ret # <<>>

(***************************************************************************)
(* The deployment id of the status lookups.                                *)
(***************************************************************************)
\* an answer before the k-th lookup carried a permanent id
PermanentIdBefore(k) == \E j \in 1..(k - 1) : dep.reported[j]

\* C24: the poll loop looks up 'latest' until an answer carries a permanent id
\* (isTemp false, id present); every lookup after that answer uses the
\* permanent id, and 'latest' is not used again.
PollUsesLatestUntilPermanentId ==
    \A k \in DOMAIN dep.lookups :
        /\ Len(dep.reported) >= k - 1
        /\ dep.lookups[k] = (IF PermanentIdBefore(k) THEN "id" ELSE "latest")

\* C24, its case: the first answer carried no permanent id, the second did,
\* and the third lookup used it
ThirdLookupUsedPermanentId ==
    /\ dep.lookups = <<"latest", "latest", "id">>
    /\ dep.reported = <<FALSE, TRUE>>

(***************************************************************************)
(* localGitDeploy after a push that was rejected.                          *)
(***************************************************************************)
\* the positions of an event in the events of the deploy call
At(e) == {i \in DOMAIN dep.events : dep.events[i] = e}

\* the first position of an event, 0 when it is not there
First(e) == IF At(e) = {} THEN 0 ELSE Min(At(e))

\* the force-push question was asked and has been answered with `input`
PushRejectAnswer(input) ==
    \E i \in At(Called("showErrorMessage")) :
        /\ i < Len(dep.events)
        /\ dep.events[i + 1] = Answered(input)

\* the force push failed: its error ends the call, nothing was looked up
ForcePushFailed ==
    /\ dep.outcome = "throw" /\ dep.error = "error"
    /\ dep.events[Len(dep.events)] = Called("forcePush")

\* C25: when the push of localGitDeploy was rejected the user is asked once,
\* after the one push.  Answered with yes, one force push follows the answer,
\* and when it returned the call logs and polls the deployment status.
\* Answered otherwise, the call ends with UserCancelledError, without a force
\* push and without a status lookup.
RejectedPushForcedOnYesOnly ==
    /\ Times(Called("showErrorMessage")) <= 1
    /\ Times(Called("forcePush")) <= 1
    /\ Times(Called("showErrorMessage")) = 1 =>
          /\ dep.workflow = "localGitDeploy"
          /\ Times(Called("push")) <= 1
          /\ At(Called("push")) # {} =>
                 First(Called("push")) < First(Called("showErrorMessage"))
          /\ dep.pc = "showErrorMessage" \/
                 \E input \in PushRejectInputs : PushRejectAnswer(input)
    /\ PushRejectAnswer("yes") =>
          /\ Times(Called("forcePush")) = 1
          /\ dep.events[First(Called("showErrorMessage")) + 2] = Called("forcePush")
          /\ \/ dep.pc = "forcePush"
             \/ ForcePushFailed
             \/ /\ Times(Logged("localGitDeploy")) = 1
                /\ Lookups >= 1
                /\ First(Called("forcePush")) < First(Logged("localGitDeploy"))
    /\ \A input \in PushRejectInputs \ {"yes"} :
          PushRejectAnswer(input) =>
              /\ dep.outcome = "throw" /\ dep.error = "UserCancelledError"
              /\ Times(Called("forcePush")) = 0
              /\ Lookups = 0
    /\ Times(Called("forcePush")) = 1 => PushRejectAnswer("yes")

\* C25, its case: the push was rejected, the user said yes, the force push went
\* through and the deployment completed
ForcePushedAndDeployed ==
    /\ PushRejectAnswer("yes")
    /\ Times(Called("push")) = 1
    /\ dep.outcome = "ok"
    /\ Times(Logged("deployComplete")) = 1

(***************************************************************************)
(* localGitDeploy without git, and with an error of another kind.          *)
(***************************************************************************)
\* the last event, and the one before it
LastEvent == dep.events[Len(dep.events)]

\* the events but the last two
EarlierEvents == SubSeq(dep.events, 1, Len(dep.events) - 2)

\* C26: when status or push fails with 'spawn git ENOENT' the install prompt
\* is shown and nothing follows it: no push has returned, there is no force
\* push, no status lookup and no log line, and once the prompt is answered
\* the call has returned without an error.  An error that is neither this
\* one nor a rejected push ends the call with that error, without a prompt.
MissingGitEndsSilently ==
    /\ At(Called("showInstallPrompt")) # {} =>
          /\ LastEvent = Called("showInstallPrompt")
          /\ dep.events[Len(dep.events) - 1] = Threw("spawn git ENOENT")
          /\ At(Called("push")) \subseteq {Len(dep.events) - 2}
          /\ Times(Called("forcePush")) = 0
          /\ Lookups = 0
          /\ \A i \in DOMAIN dep.events : dep.events[i][1] # "log"
          /\ dep.pc = "showInstallPrompt" \/ (dep.pc = "done" /\ dep.outcome = "ok")
    /\ At(Threw("spawn git ENOENT")) # {} => At(Called("showInstallPrompt")) # {}
    /\ At(Threw("other")) # {} =>
          /\ LastEvent = Threw("other")
          /\ dep.outcome = "throw" /\ dep.error = "error"
          /\ At(Called("showInstallPrompt")) = {}
          /\ At(Called("showErrorMessage")) = {}
          /\ Lookups = 0

\* C26, its case: git was missing when deploy of a LocalGit site asked for the
\* status, the prompt was answered and the call returned
ReturnedAfterInstallPrompt ==
    /\ ViaDeploy
    /\ dep.outcome = "ok"
    /\ LastEvent = Called("showInstallPrompt")
    /\ Times(Called("push")) = 0

(***************************************************************************)
(* deployRunFromZip and the application settings of the site.              *)
(***************************************************************************)
RunFromZip == dep.workflow = "deployRunFromZip"

\* the update of the application settings has returned
SettingsUpdated ==
    /\ At(Called("updateApplicationSettings")) # {}
    /\ dep.pc \in {"deleteFile", "done"}
    /\ dep.error = ""

\* C29: deployRunFromZip calls updateApplicationSettings only after
\* createBlobFromZip returned the URL and the settings were read; what it
\* sends is what the site had, with WEBSITE_USE_ZIP set to the URL (its first
\* %3A made a colon) and every other setting as it was.  It issues no zip
\* push and no status lookup.  The settings of the site change only by the
\* update that returned; a call that failed before leaves them as they were.
RunFromZipUpdatesSettingsAfterUpload ==
    RunFromZip =>
        /\ At(Called("updateApplicationSettings")) # {} =>
              /\ dep.blobUrl \in BlobUrls
              /\ First(Called("createBlobFromZip")) < First(Called("listApplicationSettings"))
              /\ First(Called("listApplicationSettings")) <
                     First(Called("updateApplicationSettings"))
              /\ dep.sent.defined
              /\ dep.sent.properties["WEBSITE_USE_ZIP"] = replace(dep.blobUrl, "%3A", ":")
              /\ \A n \in SettingNames \ {"WEBSITE_USE_ZIP"} :
                     dep.sent.properties[n] = dep.before[n]
        /\ Times(Called("updateApplicationSettings")) <= 1
        /\ Times(Called("zipPushDeploy")) = 0
        /\ Lookups = 0
        /\ dep.site = (IF SettingsUpdated THEN dep.sent.properties ELSE dep.before)
        /\ (dep.outcome = "throw" /\ dep.step <= 4) =>
              (dep.site = dep.before /\ At(Called("updateApplicationSettings")) = {})

\* C29, its case: a run-from-zip deploy returned for a site that had both
\* settings, and the site has the new URL and its other setting
RunFromZipReplacedOldPackage ==
    /\ RunFromZip
    /\ dep.outcome = "ok"
    /\ dep.before = [n \in SettingNames |-> <<"old">>]
    /\ dep.site["WEBSITE_USE_ZIP"] = <<"https://blob?se=10", ":", "00", "%3A", "00">>
    /\ dep.site["OTHER"] = <<"old">>

(***************************************************************************)
(* The specification of the provider and the events of the account: the    *)
(* provider is constructed while the account initializes, the account      *)
(* changes, the host enumerates the root, the provider is disposed.        *)
(***************************************************************************)
AccountInit ==
    /\ TreeInit(1, {PlainDescriptor})
    /\ WorkflowsNotStarted
    /\ account = [status |-> "Initializing", filters |-> <<>>]
    /\ provider \in [subscriptionNodes : {<<>>},
                     customRootNodes : {[i \in 1..k |-> RootNode(i)] : k \in 0..MaxRoots},
                     fired : {FALSE}, disposed : {FALSE},
                     enumeration : {NotEnumerated}]
    /\ picker = NoPicker

AccountNext ==
    \/ \E status \in AzureLoginStatus : StatusChanged(status)
    \/ \E filters \in SeqsUpTo(AzureSubscriptions, MaxFilters) : FiltersChanged(filters)
    \/ GetRootChildren
    \/ Dispose

AccountSpec == AccountInit /\ [][AccountNext]_vars

\* a step in which the account's filters change, or its status does
FiltersEvent == account'.filters # account.filters

StatusEvent == account'.status # account.status

\* a step after which a notification for the whole tree is pending
Notifies == provider'.fired

\* a step that fires no notification
Silent == provider'.fired = provider.fired

\* what an event of the account does to the notifications
EventsNotify ==
    /\ (FiltersEvent /\ ~provider.disposed) => Notifies
    /\ (StatusEvent /\ ~provider.disposed) =>
          IF account'.status = "LoggedIn" THEN Silent ELSE Notifies
    /\ ((FiltersEvent \/ StatusEvent) /\ provider.disposed) => Silent

\* C30: while the provider is not disposed, every change of the filters
\* fires a notification for the whole tree, and so does every change of the
\* status except the one to LoggedIn, which fires none: after a login a
\* notification comes with the change of the filters.  Once the provider is
\* disposed no event of the account fires one.
AccountEventsDriveRefresh == [][EventsNotify]_vars

\* C30, its case: the account logged in, which fired nothing, and no
\* enumeration was asked for since
LoggedInWithoutNotification ==
    /\ account.status = "LoggedIn"
    /\ ~provider.disposed
    /\ ~provider.fired
    /\ ~provider.enumeration.done

\* the call that ended last was a refresh of the parent node that returned
Refreshed == last.op = "refresh" /\ last.outcome = "ok"

\* a refresh that returned fired once, for the node; with clearing it left
\* the node without a cache
RefreshFiresOnce ==
    Refreshed =>
        /\ last.fired = <<"parent">>
        /\ last.clear => cachedChildren = NotLoaded

\* the getCachedChildren after a clearing refresh loads the first page into an
\* empty cache and returns the children of that page only
ReloadsFromFirstPage ==
    (last.op = "getCachedChildren" /\ last.afterClear /\ last.outcome = "ok") =>
        /\ [i \in DOMAIN last.fetches |-> last.fetches[i].clear] = <<TRUE>>
        /\ last.fetches[1].pre = <<>>
        /\ SameBag(ItemsOf(cachedChildren.nodes), last.fetches[1].page)

\* a step that is a refresh(node, false)
RefreshWithoutClear ==
    /\ last' # last
    /\ last'.op = "refresh"
    /\ ~last'.clear

\* refresh(node, false) leaves the cache, the placeholders and the pagination
RefreshKeepsState ==
    RefreshWithoutClear =>
        /\ cachedChildren'.defined = cachedChildren.defined
        /\ ItemsOf(cachedChildren'.nodes) = ItemsOf(cachedChildren.nodes)
        /\ creatingNodes' = creatingNodes
        /\ hasMore' = hasMore
        /\ last'.fired = <<"parent">>

\* C31: a refresh of the parent node with clearing that returns leaves the
\* node without a cache, so that the next getCachedChildren loads the first
\* page and returns it unmerged, and fires one notification, for that node;
\* refresh(node, false) fires the notification and leaves the cache, the
\* creatingNodes list and the pagination state as they were.
RefreshDropsCacheAndFiresOnce ==
    /\ []RefreshFiresOnce
    /\ []ReloadsFromFirstPage
    /\ [][RefreshKeepsState]_vars

\* C31, its case: a refresh with clearing dropped a cache of two children,
\* with more pages pending, and fired once
RefreshDroppedTwoChildren ==
    /\ Refreshed
    /\ last.clear
    /\ last.dropped = 2
    /\ hasMore
    /\ ~cachedChildren.defined

(***************************************************************************)
(* The specification of the placeholders: two callers of the parent node,  *)
(* the host that asks for its children and the commands that create a      *)
(* child, each call suspended while the descriptor works.                  *)
(***************************************************************************)
CreatingInit ==
    /\ TreeInit(2, {d \in Descriptors :
                       d.canCreate /\ ~d.custom /\ ~d.canPick /\ ~d.childTypeLabel})
    /\ WorkflowsIdle

CreatingNext ==
    \/ \E t \in TaskIds : GetChildren(t)
    \/ \E t \in TaskIds, page \in SeqsUpTo(Items, MaxPage), more \in BOOLEAN :
          FetchReturns(t, page, more)
    \/ \E t \in TaskIds : FetchThrows(t)
    \/ \E t \in TaskIds : CreateChild(t)
    \/ \E t \in TaskIds : showCreatingNode(t)
    \/ \E t \in TaskIds, item \in Items : CreateChildReturns(t, item)
    \/ \E t \in TaskIds : CreateChildThrows(t)

CreatingSpec == CreatingInit /\ [][CreatingNext]_vars

\* a step in which a getChildren of the parent node returns what lines
\* 460-463 assembled
ChildrenReturned ==
    /\ last' # last
    /\ last'.op = "getChildren"
    /\ last'.err = ""

LoadMoreNode == [commandId |-> "loadMoreCommandId"]

\* the placeholders a createChild that is still running has installed
RunningPlaceholders ==
    {p \in [owner : TaskIds, seq : 1..MaxProgress] :
        tasks[p.owner].pc = "create" /\ p.seq <= tasks[p.owner].nprog}

\* the result is the placeholders, the cache, and the "load more" node
\* exactly when there are more pages; no running createChild's placeholder
\* is missing from it
ChildrenInOrder ==
    ChildrenReturned =>
        /\ last'.ret = creatingNodes' \o cachedChildren'.nodes \o
                          (IF hasMore' THEN <<LoadMoreNode>> ELSE <<>>)
        /\ creatingNodes' = creatingNodes
        /\ RunningPlaceholders' \subseteq Range(last'.ret)

\* C32: a getChildren of the parent node whose load did not fail returns the
\* placeholders, then the cached children in the order of the cache, then
\* one "load more" node if and only if the descriptor reports more pages;
\* every placeholder of a createChild that has not ended is in the result.
GetChildrenListsPlaceholdersFirst == [][ChildrenInOrder]_vars

\* C32, its case: while a createChild with a placeholder was running,
\* getChildren returned the placeholder, a cached child and the "load more"
\* node
ChildrenWithPlaceholderAndMore ==
    /\ last.op = "getChildren"
    /\ Len(last.ret) = 3
    /\ last.ret[1] \in RunningPlaceholders
    /\ last.ret[2] \in Range(cachedChildren.nodes)
    /\ last.ret[3] = LoadMoreNode

\* the call that ended last was a first load (of a parent that was not loaded,
\* or just cleared) whose page fetch failed
FailedFirstLoad ==
    /\ last.op \in {"getCachedChildren", "loadMoreChildren"}
    /\ last.outcome = "throw"
    /\ last.err = "fetchError"
    /\ last.startUndef

\* a step in which a getCachedChildren returns the cache without a fetch
ReturnsWithoutFetch ==
    /\ last' # last
    /\ last'.op = "getCachedChildren"
    /\ last'.outcome = "ok"
    /\ last'.fetches = <<>>

\* C33: after a first load whose page fetch failed the parent is not loaded,
\* and the getCachedChildren that follows does not return without a fetch
\* (it asks for the first page again, with the clearCache argument true).
FailedFirstLoadStaysNotLoaded ==
    /\ [](FailedFirstLoad => ~cachedChildren.defined)
    /\ [][FailedFirstLoad => ~ReturnsWithoutFetch]_vars

(***************************************************************************)
(* The specification of interleaved loads: two callers of the parent node  *)
(* (the tree view that expands it, a picker that walks it, a refresh),     *)
(* each load suspended while the descriptor fetches its page.              *)
(***************************************************************************)
InterleavedInit ==
    /\ TreeInit(2, {PlainDescriptor})
    /\ WorkflowsIdle

InterleavedNext ==
    \/ \E t \in TaskIds : GetCachedChildren(t)
    \/ \E t \in TaskIds : LoadMoreChildren(t)
    \/ ClearCache
    \/ \E t \in TaskIds, page \in SeqsUpTo(Items, MaxPage), more \in BOOLEAN :
          FetchReturns(t, page, more)
    \/ \E t \in TaskIds : FetchThrows(t)

InterleavedSpec == InterleavedInit /\ [][InterleavedNext]_vars

\* call t waits for the first page of the parent
FirstLoadInFlight(t) == tasks[t].pc = "fetch" /\ tasks[t].clear

\* no getCachedChildren has returned without a fetch while the first page
\* is awaited
NoReturnDuringFirstLoad ==
    \A t \in TaskIds :
        FirstLoadInFlight(t) =>
            ~(last.op = "getCachedChildren" /\ last.outcome = "ok" /\ last.fetches = <<>>)

\* two calls wait for the first page only when a clearCache came between them
FirstPageAskedOnce ==
    \A a, b \in TaskIds :
        (a # b /\ FirstLoadInFlight(a) /\ FirstLoadInFlight(b)) =>
            (tasks[a].afterClear \/ tasks[b].afterClear)

\* C34: when getCachedChildren calls on a parent that is not loaded
\* interleave, none returns the empty list of the load that is in flight,
\* and the descriptor is asked for the first page once.
InterleavedGetsAwaitTheLoad == NoReturnDuringFirstLoad /\ FirstPageAskedOnce

\* a step in which the load of call t, which saw the cache cleared while it
\* waited, ends on the arrival of its page
ClearedLoadEnds(t) ==
    /\ tasks[t].pc = "fetch"
    /\ tasks[t].cleared
    /\ tasks'[t].pc = "idle"
    /\ last'.err # "fetchError"

\* C35: a load that saw the cache cleared while it waited for its page ends
\* without an error, and leaves the parent not loaded or with a cache that
\* begins with a first page: the page of a request for a later page, made
\* before the clear, is in no cache.
ClearedLoadCompletes ==
    [][\A t \in TaskIds :
          ClearedLoadEnds(t) =>
              /\ last'.outcome = "ok"
              /\ last'.err = ""
              /\ cachedChildren'.defined => tasks[t].clear]_vars

\* a step in which the createChild of call t ends, by return or by throw
CreateEnds(t) == tasks[t].pc = "create" /\ tasks'[t].pc = "idle"

\* the placeholders in the list that call t did not install
PlaceholdersOfOthers(t) ==
    {i \in DOMAIN creatingNodes : creatingNodes[i].owner # t}

\* C36: whatever the number of progress callbacks of a createChild and
\* however createChild calls on the parent interleave, a call that has ended
\* leaves none of its placeholders in creatingNodes and has removed no
\* placeholder of another call.
CreateChildRemovesItsPlaceholders ==
    [][\A t \in TaskIds :
          CreateEnds(t) =>
              /\ last'.leaked = 0
              /\ Len(creatingNodes') =
                     Cardinality(PlaceholdersOfOthers(t)) + last'.leaked
              /\ \A i \in PlaceholdersOfOthers(t) :
                     creatingNodes[i] \in Range(creatingNodes')]_vars

\* the deploy call went, or goes, through one of the two zip workflows
ZipWorkflow == dep.workflow \in {"deployZip", "deployRunFromZip"}

\* the calls that make, push or upload a zip file
ZipCalls == {"zipDirectory", "zipPushDeploy", "createBlobFromZip"}

\* C37: a deploy call deletes a zip file exactly when it made that file
\* itself: the zip file handed in as fsPath exists throughout and after the
\* call, however the call ends; and a call for a path that is neither a zip
\* file nor a directory throws without having made, pushed or uploaded a zip.
DeletesOnlyTheZipItCreated ==
    /\ dep.fsPath = "zip" =>
          /\ InputZip \in files
          /\ Times(Called("deleteFile")) = 0
    /\ DeployEnded =>
          Times(Called("deleteFile")) = (IF dep.zipFilePath = TmpZip THEN 1 ELSE 0)
    /\ (DeployEnded /\ ZipWorkflow /\ dep.fsPath = "other") =>
          /\ dep.outcome = "throw"
          /\ files = {}
          /\ \A e \in ZipCalls \cup {"deleteFile"} : Times(Called(e)) = 0

\* C37, its case: the push of a zip file handed in by the caller was
\* accepted, a status lookup failed, and the call has thrown
SuppliedZipKeptAfterFailure ==
    /\ DeployEnded
    /\ dep.workflow = "deployZip"
    /\ dep.fsPath = "zip"
    /\ dep.outcome = "throw"
    /\ Times(Called("getResult")) > 0
    /\ files = {InputZip}

(***************************************************************************)
(* The specification of zip deploys under fair scheduling: no status       *)
(* lookup fails, the service answers every lookup, with complete = true    *)
(* after at most MaxPolls incomplete results, and the file utilities       *)
(* answer deleteFile.  A continuation runs once its promise is settled.    *)
(***************************************************************************)
ZipDeployNext ==
    \/ \E fsPath \in FsPaths, confirmDeployment \in BOOLEAN :
          DeployZip(fsPath, confirmDeployment)
    \/ \E yes \in BOOLEAN : WarningAnswered(yes)
    \/ GetKuduClientReturns
    \/ GetKuduClientThrows
    \/ ZipDirectoryReturns
    \/ ZipDirectoryThrows
    \/ ZipPushDeployReturns
    \/ \E withBody \in BOOLEAN : ZipPushDeployThrows(withBody)
    \/ \E deployment \in DeployResults : GetResultReturns(deployment)
    \/ DeleteFileReturns

ZipDeployFairSpec ==
    /\ DeployInit
    /\ [][ZipDeployNext]_vars
    /\ WF_vars(\E deployment \in DeployResults : GetResultReturns(deployment))
    /\ WF_vars(DeleteFileReturns)

\* the push of the zip this call made was accepted: the poll loop runs
Polling ==
    /\ dep.workflow = "deployZip"
    /\ dep.pc = "getResult"
    /\ dep.zipFilePath = TmpZip

\* the call has returned, the zip it made is deleted, and the last thing it
\* did was to log the completion
ReturnedClean ==
    /\ DeployEnded
    /\ dep.outcome = "ok"
    /\ TmpZip \notin files
    /\ Times(Called("deleteFile")) = 1
    /\ dep.events[Len(dep.events)] = Logged("deployComplete")

\* as long as no status result was complete the call still waits for a
\* lookup and the zip it made is there
WaitsWhileIncomplete ==
    (dep.workflow = "deployZip" /\ Times(Called("getResult")) > 0
        /\ Times(Saw("complete")) = 0) =>
        /\ dep.pc = "getResult"
        /\ dep.zipFilePath = TmpZip => TmpZip \in files
        /\ Times(Called("deleteFile")) = 0

\* C38: under fair scheduling, when no lookup fails and the service reports
\* complete after finitely many lookups, a zip deploy whose push was accepted
\* eventually returns with the zip it made deleted and the completion
\* logged; and for as long as the service has not reported complete the call
\* has not returned and the zip is not deleted.
ZipDeployEventuallyReturns ==
    /\ Polling ~> ReturnedClean
    /\ []WaitsWhileIncomplete

\* C38, its case: the call returned after one incomplete status result,
\* whose progress it logged, and the zip it made is gone
ReturnedAfterOneIncomplete ==
    /\ ReturnedClean
    /\ dep.zipFilePath = TmpZip
    /\ dep.polls = 1
    /\ Times(Logged("progress")) = 1

====
